---- MODULE Spec2Model ----
(***************************************************************************)
(* Backend lifecycle and synchronization of the JIT core (src/src/init.cpp *)
(* with the unlock_guard of src/src/common.h): the global State record,    *)
(* the per-thread ThreadState pointers, the global mutex, and the          *)
(* operations jit_init, jit_shutdown, jit_init_thread_state,               *)
(* jit_cuda_set_device, jit_sync_thread, jit_sync_device and               *)
(* jit_sync_all_devices, run by several threads.                           *)
(*                                                                         *)
(* Heap objects (ThreadState records, CUDA streams and events) live in     *)
(* small pools of addresses/handles.  The memory of a deleted ThreadState  *)
(* goes back to the allocator: a read through a dangling pointer yields    *)
(* any ThreadState-shaped value, or the newer object once the address has  *)
(* been handed out again.                                                  *)
(*                                                                         *)
(* Specifications: Spec (lifecycle), SpecSync (synchronization), SpecDrain *)
(* (shutdown next to jit_sync_all_devices), SpecLeak (jit_shutdown on a    *)
(* populated variable store), SpecIds (the id counter), SpecInit (device   *)
(* enumeration and peer access), SpecLib (jit_find_library) and SpecSort   *)
(* (its sort comparator).                                                  *)
(***************************************************************************)
EXTENDS Integers, Sequences, FiniteSets, TLC

\* ------------------------------------------------------------------ bounds
Threads  == {"t1", "t2"}     \* OS threads calling into the library
MaxTS    == 2                \* addresses the allocator has for ThreadState objects
MaxLeaks    == 12            \* Variables in state.variables when jit_shutdown() is called
MaxIds      == 4             \* ids the model lets jit_var_new_*() issue
EnumCount   == 3             \* devices the driver enumerates when the P2P loop is examined
MaxScatters == 2             \* of them, scatters held by one external reference
MaxWork  == 1                \* kernels/tasks that may be outstanding on one ThreadState
DevCount == 2                \* devices the driver enumerates (jit_cuda_devices)

\* --------------------------------------------------------------- constants
NULL     == 0                \* nullptr (pointers and CUDA handles)
Free     == "free"           \* state.mutex owned by no thread
Null     == <<>>             \* ts->task == nullptr; <<r>> is a handle to the task
                             \* r places behind the completion front (0: finished)

TsIds    == 1..MaxTS
Handles  == 1..MaxTS         \* stream handles, event handles
Ctx(i)   == i + 1            \* the primary context of device i

VARIABLES
    has_cuda, has_llvm,      \* state.has_cuda, state.has_llvm
    devices,                 \* state.devices: sequence of [id, context]
    tss,                     \* state.tss: sequence of ThreadState pointers
    ts,                      \* heap: address -> ThreadState contents
    live,                    \* addresses holding an allocated, not deleted ThreadState
    owner,                   \* the thread that created the ThreadState at an address
    stream_ctx, event_ctx,   \* driver: handle -> its context (NULL: destroyed)
    pend,                    \* outstanding work items per ThreadState address
    thread_state_cuda, thread_state_llvm,   \* the __thread pointers
    mutex,                   \* state.mutex: its owner, or Free
    pc, op, arg, ret, calls, \* per thread: position, operation, argument, result,
                             \* driver calls made by the operation in order
    pre,                     \* per thread: what the operation found at its start
    snap, idx, cur, wait,    \* per thread: local vector tss, loop index, the
                             \* ThreadState being synchronized, work still awaited
    callPending,             \* per thread: work in the sync's scope issued before the call
    variables,               \* state.variables: id -> Variable
    cse_cache,               \* state.cse_cache: the ids that have a CSE entry
    variable_from_ptr,       \* state.variable_from_ptr: the ids of pointer literals
    extra,                   \* state.extra: the ids that have an extra record
    variable_index,          \* state.variable_index: the next id
    log_level_stderr, log_level_callback,   \* state.log_level_*
    lib,                     \* a call of jit_find_library(): its inputs and its result
    kernel_cache,            \* state.kernel_cache: the cached kernels, [id, device]
    kernel_stats,            \* state.kernel_hard_misses, _soft_misses, _hits, _launches
    jitc_llvm,               \* the globals of llvm_core.cpp and the API table
    kernel                   \* per thread: the Kernel its jitc_llvm_compile() call fills

shared  == <<has_cuda, has_llvm, devices, tss, ts, live, owner, stream_ctx, event_ctx,
             pend, thread_state_cuda, thread_state_llvm, mutex>>
locals  == <<pc, op, arg, ret, calls, pre, snap, idx, cur, wait, callPending>>
varstate == <<variables, cse_cache, variable_from_ptr, extra, variable_index,
              log_level_stderr, log_level_callback, kernel, lib, kernel_cache, kernel_stats,
              jitc_llvm>>
vars    == <<shared, locals, varstate>>

\* ----------------------------------------------------------------- helpers
Range(s)   == {s[i] : i \in 1..Len(s)}
Zero       == [i \in TsIds |-> 0]
Dec(n)     == IF n > 0 THEN n - 1 ELSE 0
Min(S)     == CHOOSE x \in S : \A y \in S : x <= y

RECURSIVE SortedSeq(_)
SortedSeq(S) == IF S = {} THEN <<>> ELSE <<Min(S)>> \o SortedSeq(S \ {Min(S)})

Ok         == [status |-> "ok", msg |-> <<>>]
NoRet      == [status |-> "none", msg |-> <<>>]
Raise(m)   == [status |-> "raise", msg |-> m]
NoPre      == [tss |-> <<>>, tsc |-> NULL, tsl |-> NULL, ts |-> NULL]
NoCur      == [p |-> NULL, cuda |-> FALSE]

\* new ThreadState(): value-initialized
NewThreadState == [cuda |-> FALSE, device |-> 0, context |-> NULL,
                   stream |-> NULL, event |-> NULL, task |-> Null]

\* The messages of jit_raise, as the pieces of their text
MsgCudaInactive ==
    <<"jit_init_thread_state(): the CUDA backend is inactive because the CUDA driver library could not be found! Set the ",
      "ENOKI_LIBCUDA_PATH", " environment variable to specify its path.">>
MsgNoDevices ==
    <<"jit_init_thread_state(): the CUDA backend is inactive because no compatible CUDA devices were found on your system.">>
MsgLlvmInactive ==
    <<"jit_init_thread_state(): the LLVM backend is inactive because the LLVM shared library could not be found! Set the ",
      "ENOKI_LIBLLVM_PATH", " environment variable to specify its path.">>
MsgDeviceRange  == <<"jit_cuda_set_device(): must be in the range 0..n!">>
MsgCudaCheck    == <<"cuda_check(): API error">>

\* What a read of freed ThreadState memory may yield: stale or overwritten
\* contents, i.e. any record of the shapes a ThreadState takes
Garbage ==
    {[cuda |-> d >= 0, device |-> d, context |-> IF d >= 0 THEN Ctx(d) ELSE NULL,
      stream |-> h, event |-> h, task |-> Null] :
        d \in (-1)..(DevCount - 1), h \in {NULL} \cup (1..MaxTS)}

\* ---------------------------------------------------------------- driver
StreamLive(s) == s \in Handles /\ stream_ctx[s] # NULL
EventLive(e)  == e \in Handles /\ event_ctx[e] # NULL
CtxLive(c)    == \E k \in 1..Len(devices) : devices[k].context = c
FreshStream(sc) == Min({s \in Handles : sc[s] = NULL})
FreshEvent(ec)  == Min({e \in Handles : ec[e] = NULL})

\* The task handle h is finished (task_wait_and_release(h) returns at once)
TaskDone(h) == IF h = Null THEN TRUE ELSE h[1] = 0

\* The values *p may yield for a ThreadState pointer p
Deref(p) == IF p \in live THEN {ts[p]} ELSE Garbage

\* ------------------------------------------------------------ llvm_core.cpp
\* The build modelled is the x86-64 one (no __aarch64__, no __APPLE__).
\* What the API table can resolve, what the host CPU reports, the JIT engines
Capabilities == {"core", "pb_new", "pb_legacy", "orcv2", "mcjit"}
Features     == {"+fma", "+sse4.2", "+avx", "+avx512vl"}
Hosts        == {{}, {"+fma"}, {"+sse4.2", "+avx"}, {"+fma", "+sse4.2"},
                 {"+fma", "+sse4.2", "+avx"}, {"+fma", "+sse4.2", "+avx", "+avx512vl"}}
Engines      == {"orcv2", "mcjit"}
LlvmVersions == {15}

\* What an initialization attempt finds: whether the library loads, the
\* capabilities it resolves, the engines whose initialization succeeds, the
\* host's feature string (as its entries), whether LLVMCreateDisasm gives a
\* context and accepts the options, and the library's major version
NoLibrary ==
    [found |-> FALSE, caps |-> {}, engines |-> {}, features |-> {},
     disasm |-> "none", version_major |-> -1]
LlvmEnvs ==
    {NoLibrary} \cup
    [found : {TRUE}, caps : SUBSET Capabilities, engines : SUBSET Engines,
     features : Hosts, disasm : {"none", "no options", "ok"},
     version_major : LlvmVersions]

\* A library with everything, on a host with AVX2 / with AVX-512
LlvmWorks ==
    [found |-> TRUE, caps |-> Capabilities, engines |-> Engines,
     features |-> {"+fma", "+sse4.2", "+avx"}, disasm |-> "ok", version_major |-> 15]

\* jitc_llvm_api_init() / jitc_llvm_api_shutdown() / jitc_llvm_api_has_*()
NoApi == [loaded |-> FALSE, caps |-> {}, version_major |-> -1]
JitcLlvmApiInit(env) ==
    IF env.found
    THEN [loaded |-> TRUE, caps |-> env.caps, version_major |-> env.version_major]
    ELSE NoApi
JitcLlvmApiShutdown == NoApi
JitcLlvmApiHas(api, c) == c \in api.caps

\* The statics of llvm_core.cpp before any call.  messages counts the strings
\* obtained from LLVM and not yet disposed of; orcv2 / mcjit tell whether that
\* engine is initialized; found is what the last attempt that ran found of
\* the library and the host
NoneFound == [found |-> FALSE, caps |-> {}, engines |-> {}, features |-> {}]
Found(env) ==
    [found |-> env.found, caps |-> env.caps, engines |-> env.engines,
     features |-> env.features]
LlvmStatics ==
    [init_attempted |-> FALSE, init_success |-> FALSE, use_orcv2 |-> FALSE,
     disasm_ctx |-> Null, context |-> Null,
     target_triple |-> Null, target_cpu |-> Null, target_features |-> Null,
     vector_width |-> 0, max_align |-> 0, opaque_pointers |-> FALSE,
     ones_str |-> Null,
     api |-> NoApi, messages |-> 0, orcv2 |-> FALSE, mcjit |-> FALSE,
     found |-> NoneFound]

\* strstr(features, needle) != nullptr: "+avx512vl" also holds "+avx"
Superstrings(needle) ==
    IF needle = "+avx" THEN {"+avx", "+avx512vl"} ELSE {needle}
Strstr(features, needle) == features \cap Superstrings(needle) # {}

\* VarType, type_name_llvm[] and type_size[] (var.h): three of the types
VarTypes == <<[name |-> "i1", size |-> 1, kind |-> "Bool"],
              [name |-> "i32", size |-> 4, kind |-> "Int"],
              [name |-> "float", size |-> 4, kind |-> "Float"]>>

\* The 16 hexadecimal digits of a float lane
RECURSIVE HexOnes(_, _)
HexOnes(k, size) ==
    IF k = 16 THEN <<>>
    ELSE <<(IF k < 2 * size THEN "F" ELSE "0")>> \o HexOnes(k + 1, size)

\* One lane of the string, with the separator unless it is the last
Lane(vt, j, width) ==
    <<vt.name, " ">>
    \o (IF vt.kind = "Bool" THEN <<"1">>
        ELSE IF vt.kind = "Float" THEN <<"0x">> \o HexOnes(0, vt.size)
        ELSE <<"-1">>)
    \o (IF j + 1 < width THEN <<", ">> ELSE <<>>)

RECURSIVE Lanes(_, _, _)
Lanes(vt, j, width) ==
    IF j >= width THEN <<>> ELSE Lane(vt, j, width) \o Lanes(vt, j + 1, width)

\* jitc_llvm_update_strings(): the old strings are freed, the new ones built
\* for the current vector width
OnesStr(vt, width) == <<"<">> \o Lanes(vt, 0, width) \o <<">">>
JitcLlvmUpdateStrings(st) ==
    [st EXCEPT !.ones_str = <<[i \in 1..Len(VarTypes) |-> OnesStr(VarTypes[i], st.vector_width)]>>]

\* jitc_llvm_shutdown()
JitcLlvmShutdown(st) ==
    IF ~st.init_success THEN st
    ELSE [st EXCEPT !.orcv2 = FALSE, !.mcjit = FALSE,
                    !.messages = @ - (IF st.target_features # Null THEN 3 ELSE 2),
                    !.disasm_ctx = Null,
                    !.target_cpu = Null, !.target_features = Null,
                    !.vector_width = 0, !.context = Null,
                    !.ones_str = Null,
                    !.init_success = FALSE, !.init_attempted = FALSE,
                    !.api = JitcLlvmApiShutdown]

\* The vector width the feature string gives
VectorWidth(features) ==
    IF Strstr(features, "+avx512vl") THEN 16
    ELSE IF Strstr(features, "+avx") THEN 8
    ELSE IF Strstr(features, "+sse4.2") THEN 4
    ELSE 1

\* jitc_llvm_init(): the globals it leaves and the value it returns
JitcLlvmInit(st, env) ==
    LET a1 == [st EXCEPT !.init_attempted = TRUE, !.found = Found(env),
                         !.api = JitcLlvmApiInit(env)]
        a2 == [a1 EXCEPT !.api = JitcLlvmApiShutdown]
        a3 == [a1 EXCEPT !.target_triple = <<"triple">>, !.target_cpu = <<"host">>,
                         !.target_features = <<env.features>>,
                         !.messages = @ + 3,
                         !.context = <<"global">>,
                         !.disasm_ctx = IF env.disasm = "ok" THEN <<"disasm">> ELSE Null]
        width == VectorWidth(env.features)
        a4 == [a3 EXCEPT !.vector_width = width, !.init_success = width > 1,
                         !.max_align = width * 4]
        a5 == IF ~a4.init_success THEN JitcLlvmShutdown(a4) ELSE a4
        orc == JitcLlvmApiHas(a5.api, "orcv2") /\ "orcv2" \in env.engines
        mcj == ~orc /\ JitcLlvmApiHas(a5.api, "mcjit") /\ "mcjit" \in env.engines
        a6 == IF orc THEN [a5 EXCEPT !.orcv2 = TRUE, !.use_orcv2 = TRUE]
              ELSE [a5 EXCEPT !.mcjit = TRUE, !.use_orcv2 = FALSE]
        a7 == JitcLlvmUpdateStrings(
                  [a6 EXCEPT !.opaque_pointers = a6.api.version_major >= 15])
    IN  IF st.init_attempted THEN [st |-> st, ret |-> st.init_success]
        ELSE IF ~a1.api.loaded THEN [st |-> a1, ret |-> FALSE]
        ELSE IF ~JitcLlvmApiHas(a1.api, "core") THEN [st |-> a2, ret |-> FALSE]
        ELSE IF ~JitcLlvmApiHas(a1.api, "pb_new") /\ ~JitcLlvmApiHas(a1.api, "pb_legacy")
             THEN [st |-> a2, ret |-> FALSE]
        ELSE IF ~Strstr(env.features, "+fma")
             THEN [st |-> JitcLlvmShutdown(a3), ret |-> FALSE]
        ELSE IF ~orc /\ ~mcj THEN [st |-> JitcLlvmShutdown(a5), ret |-> FALSE]
        ELSE [st |-> a7, ret |-> a7.init_success]

\* jitc_llvm_set_target(); target_features may be nullptr (Null)
JitcLlvmSetTarget(st, target_cpu, target_features, vector_width) ==
    IF ~st.init_success THEN st
    ELSE JitcLlvmUpdateStrings(
             [st EXCEPT !.messages = @ - (IF st.target_cpu # Null THEN 1 ELSE 0)
                                       - (IF st.target_features # Null THEN 1 ELSE 0)
                                       + 1 + (IF target_features # Null THEN 1 ELSE 0),
                        !.vector_width = vector_width,
                        !.target_cpu = <<target_cpu>>,
                        !.target_features = target_features])

\* A Kernel that no compilation has filled
NoKernel == [data |-> NULL, size |-> 0, n_reloc |-> 0, reloc |-> <<>>]

\* No kernel is cached and the counters are zero
NoStats == [hard_misses |-> 0, soft_misses |-> 0, hits |-> 0, launches |-> 0]
InitBackends ==
    /\ kernel_cache = {}
    /\ kernel_stats = NoStats
    /\ jitc_llvm = LlvmStatics
    /\ kernel = [t \in Threads |-> NoKernel]

\* ------------------------------------------------------------------- Init
\* LogLevel (include/enoki-jit/jit.h)
LogLevel == [Disable |-> 0, Error |-> 1, Warn |-> 2, Info |-> 3, Debug |-> 4, Trace |-> 5]
Max(a, b) == IF a >= b THEN a ELSE b

\* No call of jit_find_library() is under way
NoLib == [done |-> TRUE]

\* No ThreadState exists and no thread is inside a call
InitThreads ==
    /\ tss = <<>>
    /\ ts = [i \in TsIds |-> NewThreadState]
    /\ live = {} /\ owner = [i \in TsIds |-> "t1"]
    /\ stream_ctx = [s \in Handles |-> NULL]
    /\ event_ctx = [e \in Handles |-> NULL]
    /\ pend = Zero
    /\ thread_state_cuda = [t \in Threads |-> NULL]
    /\ thread_state_llvm = [t \in Threads |-> NULL]
    /\ mutex = Free
    /\ pc = [t \in Threads |-> "idle"]
    /\ op = [t \in Threads |-> "none"]
    /\ arg = [t \in Threads |-> 0]
    /\ ret = [t \in Threads |-> NoRet]
    /\ calls = [t \in Threads |-> <<>>]
    /\ pre = [t \in Threads |-> NoPre]
    /\ snap = [t \in Threads |-> <<>>]
    /\ idx = [t \in Threads |-> 0]
    /\ cur = [t \in Threads |-> NoCur]
    /\ wait = [t \in Threads |-> Zero]
    /\ callPending = [t \in Threads |-> Zero]

\* No backend is initialized, no Variable exists; the log levels are the
\* defaults of State
Init ==
    /\ has_cuda = FALSE /\ has_llvm = FALSE /\ devices = <<>>
    /\ InitThreads
    /\ variables = [i \in {} |-> 0]
    /\ cse_cache = {} /\ variable_from_ptr = {} /\ extra = {}
    /\ variable_index = 1
    /\ log_level_stderr = LogLevel.Info /\ log_level_callback = LogLevel.Disable
    /\ lib = NoLib
    /\ InitBackends

\* ------------------------------------------------- the API boundary (lock)
\* An exported entry point takes state.mutex before it calls into the core ...
ApiEnter(t) ==
    /\ pc[t] = "idle" /\ mutex = Free
    /\ mutex' = t
    /\ pc' = [pc EXCEPT ![t] = "api"]
    /\ UNCHANGED <<has_cuda, has_llvm, devices, tss, ts, live, owner, stream_ctx,
                   event_ctx, pend, thread_state_cuda, thread_state_llvm>>
    /\ UNCHANGED <<op, arg, ret, calls, pre, snap, idx, cur, wait, callPending>>
    /\ UNCHANGED varstate

\* ... and gives it back when the call returns or raises
ApiReturn(t) ==
    /\ pc[t] = "ret" /\ mutex = t
    /\ mutex' = Free
    /\ pc' = [pc EXCEPT ![t] = "idle"]
    /\ op' = [op EXCEPT ![t] = "none"]
    /\ arg' = [arg EXCEPT ![t] = 0]
    /\ ret' = [ret EXCEPT ![t] = NoRet]
    /\ calls' = [calls EXCEPT ![t] = <<>>]
    /\ pre' = [pre EXCEPT ![t] = NoPre]
    /\ snap' = [snap EXCEPT ![t] = <<>>]
    /\ idx' = [idx EXCEPT ![t] = 0]
    /\ cur' = [cur EXCEPT ![t] = NoCur]
    /\ callPending' = [callPending EXCEPT ![t] = Zero]
    /\ UNCHANGED <<has_cuda, has_llvm, devices, tss, ts, live, owner, stream_ctx,
                   event_ctx, pend, thread_state_cuda, thread_state_llvm, wait>>
    /\ UNCHANGED varstate

\* Thread t has entered an exported call and the operation starts
Called(t) == pc[t] = "api" /\ mutex = t /\ op[t] = "none"

\* ... or goes on after thread_state(cuda) has given it its ThreadState, which
\* jit_init_thread_state(cuda) may just have created
HasThreadState(t, cuda) ==
    /\ pc[t] = "api" /\ mutex = t
    /\ IF op[t] = "none" THEN TRUE
       ELSE /\ op[t] = "init_thread_state"
            /\ IF cuda THEN thread_state_cuda[t] # pre[t].tsc
               ELSE thread_state_llvm[t] # pre[t].tsl

\* The operation of thread t ends: its name, argument, result
Finish(t, name, a, r) ==
    /\ pc' = [pc EXCEPT ![t] = "ret"]
    /\ op' = [op EXCEPT ![t] = name]
    /\ arg' = [arg EXCEPT ![t] = a]
    /\ ret' = [ret EXCEPT ![t] = r]

\* ---------------------------------------------------------------- jit_init
\* The sub-streams (sub-events) of device i: the handles the driver returns
ENOKI_SUB_STREAMS == 4
SubHandles(i) == [k \in 1..ENOKI_SUB_STREAMS |-> <<i, k>>]

\* The Device records pushed for the accepted devices, in enumeration order
Enumerate(acc) ==
    [k \in 1..Cardinality(acc) |->
        [id |-> SortedSeq(acc)[k], context |-> Ctx(SortedSeq(acc)[k]),
         sub_streams |-> SubHandles(SortedSeq(acc)[k]),
         sub_events |-> SubHandles(SortedSeq(acc)[k])]]

\* A device is skipped when it lacks unified addressing or managed memory
SuitableUnified(i, unified, managed) == i \in unified
Suitable(i, unified, managed)        == i \in unified /\ i \in managed

\* The driver calls of the enumeration loop for the accepted devices s
RECURSIVE SubStreamCalls(_, _)
SubStreamCalls(i, k) ==
    IF k > ENOKI_SUB_STREAMS THEN <<>>
    ELSE <<<<"cuStreamCreate", <<i, k>>>>, <<"cuEventCreate", <<i, k>>>>>>
         \o SubStreamCalls(i, k + 1)

RECURSIVE EnumerateCalls(_)
EnumerateCalls(s) ==
    IF s = <<>> THEN <<>>
    ELSE <<<<"cuDevicePrimaryCtxRetain", Head(s)>>>> \o SubStreamCalls(Head(s), 1)
         \o EnumerateCalls(Tail(s))

\* The pairs (a.id, b.id) in the order of the two nested loops over devs
PairSeq(devs) ==
    LET L   == Len(devs)
        all == [m \in 1..(L * L) |->
                   <<devs[((m - 1) \div L) + 1].id, devs[((m - 1) % L) + 1].id>>]
    IN  SelectSeq(all, LAMBDA p : p[1] # p[2])

\* What cuDeviceCanAccessPeer and cuCtxEnablePeerAccess answer for a pair:
\* "no" (peer_ok == 0), or peer_ok != 0 and the result of enabling
PeerResults == {"no", "success", "already enabled", "error"}

\* cuda_check(rv) raises unless rv is CUDA_SUCCESS; the loop has gone on before
\* it when rv is CUDA_ERROR_PEER_ACCESS_ALREADY_ENABLED
PeerRaisesAlready(rv) == rv \in {"error", "already enabled"}
PeerRaises(rv)        == rv = "error"

RECURSIVE PeerLoop(_, _)
PeerLoop(pairs, peer) ==
    IF pairs = <<>> THEN <<>>
    ELSE LET a  == Head(pairs)[1]
             b  == Head(pairs)[2]
             rv == peer[Head(pairs)]
         IN  <<<<"cuDeviceCanAccessPeer", a, b>>>>
             \o (IF rv = "no" THEN PeerLoop(Tail(pairs), peer)
                 ELSE <<<<"cuCtxEnablePeerAccess", a, b, rv>>>>
                      \o (IF PeerRaises(rv) THEN <<<<"cuda_check", a, b>>>>
                          ELSE PeerLoop(Tail(pairs), peer)))

\* The loop ended in cuda_check raising
PeerFailed(c) == c # <<>> /\ c[Len(c)][1] = "cuda_check"

\* llvm, cuda: the arguments; llvm_ok, cuda_ok: what jit_llvm_init() and
\* jit_cuda_init() return; n: jit_cuda_devices; unified, managed: the devices
\* that have the attribute; peer: the driver's answers for the ordered pairs
\* The two arguments of jit_init() as one number
InitArg(llvm, cuda) == 2 * llvm + cuda

\* jit_init() returns at once when a backend is active or none is asked for
InitReturnsEarlyUnasked(llvm, cuda) == llvm = 0 /\ cuda = 0
InitReturnsEarly(llvm, cuda) == has_llvm \/ has_cuda \/ (llvm = 0 /\ cuda = 0)

JitInit(t, llvm, cuda, lenv, cuda_ok, n, unified, managed, peer) ==
    LET early == InitReturnsEarly(llvm, cuda)
        li    == JitcLlvmInit(jitc_llvm, lenv)
        a     == InitArg(llvm, cuda)
        asked == ~early /\ cuda # 0 /\ cuda_ok
        acc   == IF asked THEN {i \in 0..(n - 1) : Suitable(i, unified, managed)} ELSE {}
        devs  == devices \o Enumerate(acc)
        p2p   == PeerLoop(PairSeq(devs), peer)
    IN
    /\ Called(t)
    /\ IF early
       THEN /\ UNCHANGED <<has_llvm, has_cuda, devices, variable_index, calls, pre>>
            /\ UNCHANGED <<kernel_stats, jitc_llvm>>
            /\ Finish(t, "init", a, Ok)
       ELSE /\ has_llvm' = (llvm # 0 /\ li.ret)
            /\ jitc_llvm' = (IF llvm # 0 THEN li.st ELSE jitc_llvm)
            /\ has_cuda' = (cuda # 0 /\ cuda_ok)
            /\ devices' = devs
            /\ calls' = [calls EXCEPT ![t] = EnumerateCalls(SortedSeq(acc)) \o p2p]
            /\ pre' = [pre EXCEPT ![t] =
                  IF asked
                  THEN [n |-> n, unified |-> unified, managed |-> managed, peer |-> peer]
                  ELSE NoPre]
            /\ IF PeerFailed(p2p)
               THEN /\ UNCHANGED <<variable_index, kernel_stats>>
                    /\ Finish(t, "init", a, Raise(MsgCudaCheck))
               ELSE /\ variable_index' = 1
                    /\ kernel_stats' = NoStats
                    /\ Finish(t, "init", a, Ok)
    /\ UNCHANGED <<tss, ts, live, owner, stream_ctx, event_ctx, pend,
                   thread_state_cuda, thread_state_llvm, mutex>>
    /\ UNCHANGED <<snap, idx, cur, wait, callPending>>
    /\ UNCHANGED <<variables, cse_cache, variable_from_ptr, extra,
                   log_level_stderr, log_level_callback, kernel, lib, kernel_cache>>

\* The driver's answers when no device can reach another
Pairs(n) == {p \in (0..(n - 1)) \X (0..(n - 1)) : p[1] # p[2]}
NoPeer(n) == [p \in Pairs(n) |-> "no"]

\* --------------------------------------------------- jit_init_thread_state
\* thread_state(cuda) returns the thread-local pointer and calls
\* jit_init_thread_state(cuda) when it is null: the guard on the pointer is that
\* caller's.  a: the address operator new returns.  On success the caller goes
\* on, inside the same critical section, with the operation that asked for the
\* ThreadState; jit_raise ends the API call.
JitInitThreadStateError(cuda) ==
    IF cuda THEN (IF ~has_cuda THEN MsgCudaInactive
                  ELSE IF devices = <<>> THEN MsgNoDevices ELSE <<>>)
    ELSE (IF ~has_llvm THEN MsgLlvmInactive ELSE <<>>)

\* What the failing paths leave in state.tss and in the thread-local pointer
InitFailTssPushed(a)  == Append(tss, a)
InitFailTss(a)        == tss
InitFailPointer(p, a) == p

JitInitThreadState(t, cuda, a) ==
    /\ Called(t)
    /\ (IF cuda THEN thread_state_cuda[t] ELSE thread_state_llvm[t]) = NULL
    /\ a \in TsIds \ live /\ pend[a] = 0
    /\ pre' = [pre EXCEPT ![t] = [tss |-> tss, tsc |-> thread_state_cuda[t],
                                  tsl |-> thread_state_llvm[t], ts |-> NULL]]
    /\ IF JitInitThreadStateError(cuda) # <<>>
       THEN \* new ThreadState(); delete ts; jit_raise(...)
            /\ ts' = ts
            /\ tss' = InitFailTss(a)
            /\ thread_state_cuda' = [thread_state_cuda EXCEPT
                   ![t] = IF cuda THEN InitFailPointer(@, a) ELSE @]
            /\ thread_state_llvm' = [thread_state_llvm EXCEPT
                   ![t] = IF cuda THEN @ ELSE InitFailPointer(@, a)]
            /\ Finish(t, "init_thread_state", IF cuda THEN 1 ELSE 0,
                      Raise(JitInitThreadStateError(cuda)))
            /\ UNCHANGED <<live, owner, stream_ctx, event_ctx, calls>>
       ELSE /\ IF cuda
               THEN /\ \E s \in Handles : ~StreamLive(s)
                    /\ \E e \in Handles : ~EventLive(e)
                    /\ LET c == devices[1].context
                           s == FreshStream(stream_ctx)
                           e == FreshEvent(event_ctx)
                       IN /\ ts' = [ts EXCEPT ![a] =
                                 [cuda |-> TRUE, device |-> 0, context |-> c,
                                  stream |-> s, event |-> e, task |-> Null]]
                          /\ stream_ctx' = [stream_ctx EXCEPT ![s] = c]
                          /\ event_ctx' = [event_ctx EXCEPT ![e] = c]
                          /\ calls' = [calls EXCEPT ![t] =
                                 <<<<"cuStreamCreate", s>>, <<"cuEventCreate", e>>>>]
                    /\ thread_state_cuda' = [thread_state_cuda EXCEPT ![t] = a]
                    /\ UNCHANGED thread_state_llvm
               ELSE /\ ts' = [ts EXCEPT ![a] =
                           [NewThreadState EXCEPT !.device = -1, !.cuda = FALSE]]
                    /\ thread_state_llvm' = [thread_state_llvm EXCEPT ![t] = a]
                    /\ calls' = [calls EXCEPT ![t] = <<>>]
                    /\ UNCHANGED <<thread_state_cuda, stream_ctx, event_ctx>>
            /\ tss' = Append(tss, a)
            /\ live' = live \cup {a}
            /\ owner' = [owner EXCEPT ![a] = t]
            /\ op' = [op EXCEPT ![t] = "init_thread_state"]
            /\ UNCHANGED <<pc, arg, ret>>
    /\ UNCHANGED <<has_cuda, has_llvm, devices, pend, mutex>>
    /\ UNCHANGED <<snap, idx, cur, wait, callPending>>
    /\ UNCHANGED varstate

\* jit_cuda_stream(): thread_state(true)->stream
JitCudaStream(t) ==
    /\ HasThreadState(t, TRUE)
    /\ thread_state_cuda[t] # NULL
    /\ \E r \in Deref(thread_state_cuda[t]) : Finish(t, "cuda_stream", r.stream, Ok)
    /\ UNCHANGED shared
    /\ UNCHANGED <<calls, pre, snap, idx, cur, wait, callPending>>
    /\ UNCHANGED varstate

\* ------------------------------------------------------------ asynchronous work
\* A kernel launch of thread t on its ThreadState of the given backend: the work
\* is enqueued on the stream (GPU) or submitted to the pool as a task that depends
\* on the previous one, whose handle replaces ts->task (CPU).  It runs outside
\* the lock.  (Launches through a dangling pointer are left out.)
Launch(t, cuda) ==
    /\ HasThreadState(t, cuda)
    /\ (IF cuda THEN thread_state_cuda[t] ELSE thread_state_llvm[t]) \in live
    /\ LET a == IF cuda THEN thread_state_cuda[t] ELSE thread_state_llvm[t] IN
       IF ts[a].cuda /\ ~StreamLive(ts[a].stream)
       THEN /\ Finish(t, "launch", 0, Raise(MsgCudaCheck))
            /\ UNCHANGED <<pend, ts>>
       ELSE /\ pend[a] < MaxWork
            /\ pend' = [pend EXCEPT ![a] = @ + 1]
            /\ ts' = IF ts[a].cuda THEN ts
                     ELSE [ts EXCEPT ![a].task = <<pend[a] + 1>>]
            /\ Finish(t, "launch", 0, Ok)
    /\ UNCHANGED <<has_cuda, has_llvm, devices, tss, live, owner, stream_ctx,
                   event_ctx, thread_state_cuda, thread_state_llvm, mutex>>
    /\ UNCHANGED <<calls, pre, snap, idx, cur, wait, callPending>>
    /\ UNCHANGED varstate

\* The oldest outstanding work item of the ThreadState at address a completes
WorkDone(a) ==
    /\ pend[a] > 0
    /\ pend' = [pend EXCEPT ![a] = @ - 1]
    /\ ts' = [ts EXCEPT ![a].task = IF @ = Null THEN @ ELSE <<Dec(@[1])>>]
    /\ wait' = [t \in Threads |-> [wait[t] EXCEPT ![a] = Dec(@)]]
    /\ callPending' = [t \in Threads |-> [callPending[t] EXCEPT ![a] = Dec(@)]]
    /\ UNCHANGED <<has_cuda, has_llvm, devices, tss, live, owner, stream_ctx,
                   event_ctx, thread_state_cuda, thread_state_llvm, mutex>>
    /\ UNCHANGED <<pc, op, arg, ret, calls, pre, snap, idx, cur>>
    /\ UNCHANGED varstate

\* ------------------------------------------------------ jit_cuda_set_device
\* (size_t) device: a negative int becomes a huge unsigned value (the width is
\* scaled to the integers at hand: 31 bits)
SizeT(d) == IF d < 0 THEN (d + 2147483647) + 1 ELSE d

RangeError(d)       == SizeT(d) >= Len(devices)

\* state.devices[device].context (an index past the end reads no Device)
DeviceContext(d) == IF d + 1 \in DOMAIN devices THEN devices[d + 1].context ELSE NULL

\* The switch of a ThreadState r to device d, after the synchronization of the
\* old stream: the driver calls in order, the ThreadState and the driver's
\* streams and events afterwards
SetDeviceSwitchEarlyCreate(r, d) ==
    LET sc1 == [stream_ctx EXCEPT ![r.stream] = NULL]
        ec1 == [event_ctx EXCEPT ![r.event] = NULL]
        s   == FreshStream(sc1)
        e   == FreshEvent(ec1)
    IN [calls |-> << <<"cuStreamSynchronize", r.stream>>, <<"cuEventDestroy", r.event>>,
                     <<"cuStreamDestroy", r.stream>>, <<"cuStreamCreate", s>>,
                     <<"cuEventCreate", e>>, <<"install", d>> >>,
        ts |-> [r EXCEPT !.context = DeviceContext(d), !.device = d,
                         !.stream = s, !.event = e],
        stream_ctx |-> [sc1 EXCEPT ![s] = r.context],
        event_ctx  |-> [ec1 EXCEPT ![e] = r.context]]

SetDeviceSwitch(r, d) ==
    LET new_context == DeviceContext(d)
        sc1 == [stream_ctx EXCEPT ![r.stream] = NULL]
        ec1 == [event_ctx EXCEPT ![r.event] = NULL]
        s   == FreshStream(sc1)
        e   == FreshEvent(ec1)
    IN [calls |-> << <<"cuStreamSynchronize", r.stream>>, <<"cuEventDestroy", r.event>>,
                     <<"cuStreamDestroy", r.stream>>, <<"install", d>>,
                     <<"cuStreamCreate", s>>, <<"cuEventCreate", e>> >>,
        ts |-> [r EXCEPT !.context = new_context, !.device = d,
                         !.stream = s, !.event = e],
        stream_ctx |-> [sc1 EXCEPT ![s] = new_context],
        event_ctx  |-> [ec1 EXCEPT ![e] = new_context]]

\* The ThreadStates whose work runs on stream h
OnStream(h) == {a \in live : ts[a].cuda /\ ts[a].stream = h}

\* ts = thread_state(true) is the thread's existing pointer here (creation is
\* JitInitThreadState, earlier in the same critical section).  The
\* cuStreamSynchronize is made with the mutex held: the call gets past it once the
\* stream's work is done.  A destroyed handle makes the driver call fail.
JitCudaSetDevice(t, d) ==
    /\ HasThreadState(t, TRUE)
    /\ thread_state_cuda[t] # NULL
    /\ LET p == thread_state_cuda[t] IN
       \E r \in Deref(p) :
         /\ pre' = [pre EXCEPT ![t] = [tss |-> tss, tsc |-> p,
                                       tsl |-> thread_state_llvm[t], ts |-> r]]
         /\ IF r.device = d
            THEN /\ Finish(t, "set_device", d, Ok)
                 /\ calls' = [calls EXCEPT ![t] = <<>>]
                 /\ UNCHANGED <<ts, stream_ctx, event_ctx>>
            ELSE IF RangeError(d)
            THEN /\ Finish(t, "set_device", d, Raise(MsgDeviceRange))
                 /\ calls' = [calls EXCEPT ![t] = <<>>]
                 /\ UNCHANGED <<ts, stream_ctx, event_ctx>>
            ELSE IF ~StreamLive(r.stream)
            THEN /\ Finish(t, "set_device", d, Raise(MsgCudaCheck))
                 /\ calls' = [calls EXCEPT ![t] = <<>>]
                 /\ UNCHANGED <<ts, stream_ctx, event_ctx>>
            ELSE IF ~EventLive(r.event)
            THEN /\ \A a \in OnStream(r.stream) : pend[a] = 0
                 /\ Finish(t, "set_device", d, Raise(MsgCudaCheck))
                 /\ calls' = [calls EXCEPT ![t] = << <<"cuStreamSynchronize", r.stream>> >>]
                 /\ UNCHANGED <<ts, stream_ctx, event_ctx>>
            ELSE /\ \A a \in OnStream(r.stream) : pend[a] = 0
                 /\ LET sw == SetDeviceSwitch(r, d) IN
                      /\ calls' = [calls EXCEPT ![t] = sw.calls]
                      /\ ts' = IF p \in live THEN [ts EXCEPT ![p] = sw.ts] ELSE ts
                      /\ stream_ctx' = sw.stream_ctx
                      /\ event_ctx' = sw.event_ctx
                 /\ Finish(t, "set_device", d, Ok)
    /\ UNCHANGED <<has_cuda, has_llvm, devices, tss, live, owner, pend,
                   thread_state_cuda, thread_state_llvm, mutex>>
    /\ UNCHANGED <<snap, idx, cur, wait, callPending>>
    /\ UNCHANGED varstate

\* ----------------------------------------------------------- unlock_guard
\* unlock_guard(std::mutex &): m_mutex.unlock()
UnlockGuardCtorKeep(t) == t
UnlockGuardCtor(t)     == Free

\* ~unlock_guard(): m_mutex.lock(), which blocks until the mutex is free.  It
\* runs when the scope is left, also by an exception.  next: where the caller
\* goes on after the scope.
UnlockGuardDtor(t, next) ==
    /\ mutex = Free
    /\ mutex' = t
    /\ pc' = [pc EXCEPT ![t] = IF ret[t].status = "raise" THEN "ret" ELSE next]

\* ------------------------------------------------- the sync operations
PendingOn(S) == [a \in TsIds |-> IF a \in S THEN pend[a] ELSE 0]

\* The ThreadStates the calling thread owns, through its thread-local pointers
Own(t) == {a \in {thread_state_cuda[t], thread_state_llvm[t]} \cap live : owner[a] = t}

\* The registered ThreadStates sync_device is to cover: every CPU ThreadState,
\* and the GPU ThreadStates on the context of the caller's current device
DeviceScope(t) ==
    {a \in Range(tss) : ~ts[a].cuda}
    \cup (IF thread_state_cuda[t] \in Own(t)
          THEN {a \in Range(tss) : ts[a].cuda
                                   /\ ts[a].context = ts[thread_state_cuda[t]].context}
          ELSE {})

\* The ThreadState pointers handed to jit_sync_thread(ThreadState *), in order
SyncArgsLive(t) ==
    IF op[t] = "sync_thread" THEN <<thread_state_cuda[t], thread_state_llvm[t]>>
    ELSE tss
SyncArgs(t) ==
    IF op[t] = "sync_thread" THEN <<thread_state_cuda[t], thread_state_llvm[t]>>
    ELSE snap[t]

\* Whether jit_sync_device() runs its loop over the CPU ThreadStates
SyncsCpu(t)       == thread_state_llvm[t] # NULL

\* jit_sync_thread(): unlock_guard guard(state.mutex)
JitSyncThread(t) ==
    /\ Called(t)
    /\ mutex' = UnlockGuardCtor(t)
    /\ pc' = [pc EXCEPT ![t] = "loop"]
    /\ op' = [op EXCEPT ![t] = "sync_thread"]
    /\ ret' = [ret EXCEPT ![t] = Ok]
    /\ idx' = [idx EXCEPT ![t] = 1]
    /\ callPending' = [callPending EXCEPT ![t] = PendingOn(Own(t))]
    /\ UNCHANGED <<has_cuda, has_llvm, devices, tss, ts, live, owner, stream_ctx,
                   event_ctx, pend, thread_state_cuda, thread_state_llvm>>
    /\ UNCHANGED <<arg, calls, pre, snap, cur, wait>>
    /\ UNCHANGED varstate

\* jit_sync_device(): ts = thread_state_cuda; if (ts) { unlock_guard ...
JitSyncDevice(t) ==
    /\ Called(t)
    /\ op' = [op EXCEPT ![t] = "sync_device"]
    /\ ret' = [ret EXCEPT ![t] = Ok]
    /\ callPending' = [callPending EXCEPT ![t] = PendingOn(DeviceScope(t))]
    /\ IF thread_state_cuda[t] # NULL
       THEN /\ mutex' = UnlockGuardCtor(t)
            /\ pc' = [pc EXCEPT ![t] = "ctx"]
       ELSE /\ pc' = [pc EXCEPT ![t] = "cpu"]
            /\ UNCHANGED mutex
    /\ UNCHANGED <<has_cuda, has_llvm, devices, tss, ts, live, owner, stream_ctx,
                   event_ctx, pend, thread_state_cuda, thread_state_llvm>>
    /\ UNCHANGED <<arg, calls, pre, snap, idx, cur, wait>>
    /\ UNCHANGED varstate

\* scoped_set_context guard2(ts->context); cuCtxSynchronize(): waits for the work
\* enqueued so far on every stream of the context; cuda_check raises when the
\* driver reports an error (err, at CtxSynchronizeDone)
CtxSynchronize(t) ==
    /\ pc[t] = "ctx"
    /\ \E r \in Deref(thread_state_cuda[t]) :
         IF CtxLive(r.context)
         THEN /\ wait' = [wait EXCEPT ![t] = PendingOn(
                     {a \in live : ts[a].cuda /\ StreamLive(ts[a].stream)
                                   /\ stream_ctx[ts[a].stream] = r.context})]
              /\ pc' = [pc EXCEPT ![t] = "wait_ctx"]
              /\ calls' = [calls EXCEPT ![t] = Append(@, <<"cuCtxSynchronize", r.context>>)]
              /\ UNCHANGED ret
         ELSE /\ ret' = [ret EXCEPT ![t] = Raise(MsgCudaCheck)]
              /\ pc' = [pc EXCEPT ![t] = "relock_ctx"]
              /\ UNCHANGED <<wait, calls>>
    /\ UNCHANGED shared
    /\ UNCHANGED <<op, arg, pre, snap, idx, cur, callPending>>
    /\ UNCHANGED varstate

CtxSynchronizeDone(t, err) ==
    /\ pc[t] = "wait_ctx"
    /\ wait[t] = Zero
    /\ ret' = [ret EXCEPT ![t] = IF err THEN Raise(MsgCudaCheck) ELSE @]
    /\ pc' = [pc EXCEPT ![t] = "relock_ctx"]
    /\ UNCHANGED shared
    /\ UNCHANGED <<op, arg, calls, pre, snap, idx, cur, wait, callPending>>
    /\ UNCHANGED varstate

\* the end of the scope of the first unlock_guard of jit_sync_device()
RelockCtx(t) ==
    /\ pc[t] = "relock_ctx"
    /\ UnlockGuardDtor(t, "cpu")
    /\ UNCHANGED <<has_cuda, has_llvm, devices, tss, ts, live, owner, stream_ctx,
                   event_ctx, pend, thread_state_cuda, thread_state_llvm>>
    /\ UNCHANGED <<op, arg, ret, calls, pre, snap, idx, cur, wait, callPending>>
    /\ UNCHANGED varstate

\* jit_sync_device(): if (thread_state_llvm) { std::vector<ThreadState *> tss = state.tss;
SyncDeviceSnapshot(t) ==
    /\ pc[t] = "cpu" /\ mutex = t
    /\ IF SyncsCpu(t)
       THEN /\ snap' = [snap EXCEPT ![t] = tss]
            /\ pc' = [pc EXCEPT ![t] = "snapped"]
       ELSE /\ pc' = [pc EXCEPT ![t] = "ret"]
            /\ UNCHANGED snap
    /\ UNCHANGED shared
    /\ UNCHANGED <<op, arg, ret, calls, pre, idx, cur, wait, callPending>>
    /\ UNCHANGED varstate

\* jit_sync_all_devices(): std::vector<ThreadState *> tss = state.tss;
JitSyncAllDevices(t) ==
    /\ Called(t)
    /\ op' = [op EXCEPT ![t] = "sync_all"]
    /\ ret' = [ret EXCEPT ![t] = Ok]
    /\ snap' = [snap EXCEPT ![t] = tss]
    /\ pc' = [pc EXCEPT ![t] = "snapped"]
    /\ callPending' = [callPending EXCEPT ![t] = PendingOn(Range(tss))]
    /\ UNCHANGED shared
    /\ UNCHANGED <<arg, calls, pre, idx, cur, wait>>
    /\ UNCHANGED varstate

\* unlock_guard guard(state.mutex), after the copy
SnapshotUnlock(t) ==
    /\ pc[t] = "snapped" /\ mutex = t
    /\ mutex' = UnlockGuardCtor(t)
    /\ idx' = [idx EXCEPT ![t] = 1]
    /\ pc' = [pc EXCEPT ![t] = "loop"]
    /\ UNCHANGED <<has_cuda, has_llvm, devices, tss, ts, live, owner, stream_ctx,
                   event_ctx, pend, thread_state_cuda, thread_state_llvm>>
    /\ UNCHANGED <<op, arg, ret, calls, pre, snap, cur, wait, callPending>>
    /\ UNCHANGED varstate

\* jit_sync_thread(ThreadState *ts) up to its blocking call, for the next pointer:
\* a null pointer returns at once; jit_sync_device() passes only CPU
\* ThreadStates; cuStreamSynchronize waits for the work enqueued so far on
\* ts->stream, task_wait_and_release for the task ts->task (read here)
SyncThreadState(t) ==
    /\ pc[t] = "loop" /\ idx[t] <= Len(SyncArgs(t))
    /\ LET p == SyncArgs(t)[idx[t]] IN
       IF p = NULL
       THEN /\ idx' = [idx EXCEPT ![t] = @ + 1]
            /\ UNCHANGED <<pc, cur, wait, ret, calls>>
       ELSE \E r \in Deref(p) :
            IF op[t] = "sync_device" /\ r.cuda
            THEN /\ idx' = [idx EXCEPT ![t] = @ + 1]
                 /\ UNCHANGED <<pc, cur, wait, ret, calls>>
            ELSE IF r.cuda /\ ~StreamLive(r.stream)
            THEN /\ ret' = [ret EXCEPT ![t] = Raise(MsgCudaCheck)]
                 /\ pc' = [pc EXCEPT ![t] = "relock"]
                 /\ UNCHANGED <<idx, cur, wait, calls>>
            ELSE /\ cur' = [cur EXCEPT ![t] = [p |-> p, cuda |-> r.cuda]]
                 /\ wait' = [wait EXCEPT ![t] =
                        IF r.cuda THEN PendingOn(OnStream(r.stream))
                        ELSE [Zero EXCEPT ![p] = IF r.task = Null THEN 0 ELSE r.task[1]]]
                 /\ calls' = [calls EXCEPT ![t] = Append(@,
                        IF r.cuda THEN <<"cuStreamSynchronize", r.stream>>
                        ELSE <<"task_wait_and_release", p>>)]
                 /\ pc' = [pc EXCEPT ![t] = "wait"]
                 /\ UNCHANGED <<idx, ret>>
    /\ UNCHANGED shared
    /\ UNCHANGED <<op, arg, pre, snap, callPending>>
    /\ UNCHANGED varstate

\* The blocking call returns; cuda_check raises when the driver reports an error
\* (err); for a CPU ThreadState: ts->task = nullptr
SyncThreadStateDone(t, err) ==
    /\ pc[t] = "wait"
    /\ wait[t] = Zero
    /\ err => cur[t].cuda
    /\ ts' = IF ~cur[t].cuda /\ cur[t].p \in live
             THEN [ts EXCEPT ![cur[t].p].task = Null] ELSE ts
    /\ idx' = [idx EXCEPT ![t] = IF err THEN @ ELSE @ + 1]
    /\ cur' = [cur EXCEPT ![t] = NoCur]
    /\ ret' = [ret EXCEPT ![t] = IF err THEN Raise(MsgCudaCheck) ELSE @]
    /\ pc' = [pc EXCEPT ![t] = IF err THEN "relock" ELSE "loop"]
    /\ UNCHANGED <<has_cuda, has_llvm, devices, tss, live, owner, stream_ctx,
                   event_ctx, pend, thread_state_cuda, thread_state_llvm, mutex>>
    /\ UNCHANGED <<op, arg, calls, pre, snap, wait, callPending>>
    /\ UNCHANGED varstate

\* The loop (or the two calls of jit_sync_thread()) is over
SyncLoopEnd(t) ==
    /\ pc[t] = "loop" /\ idx[t] > Len(SyncArgs(t))
    /\ pc' = [pc EXCEPT ![t] = "relock"]
    /\ UNCHANGED shared
    /\ UNCHANGED <<op, arg, ret, calls, pre, snap, idx, cur, wait, callPending>>
    /\ UNCHANGED varstate

\* the end of the scope of the unlock_guard: the operation returns or raises
Relock(t) ==
    /\ pc[t] = "relock"
    /\ UnlockGuardDtor(t, "ret")
    /\ UNCHANGED <<has_cuda, has_llvm, devices, tss, ts, live, owner, stream_ctx,
                   event_ctx, pend, thread_state_cuda, thread_state_llvm>>
    /\ UNCHANGED <<op, arg, ret, calls, pre, snap, idx, cur, wait, callPending>>
    /\ UNCHANGED varstate

\* ------------------------------------------------------------- jit_shutdown
\* The driver and pool calls of the loop over state.tss, in order
RECURSIVE ShutdownCalls(_)
ShutdownCalls(s) ==
    IF s = <<>> THEN <<>>
    ELSE <<<<"jit_free_flush", Head(s)>>>>
         \o (IF ts[Head(s)].cuda
             THEN <<<<"cuStreamSynchronize", ts[Head(s)].stream>>,
                    <<"cuEventDestroy", ts[Head(s)].event>>,
                    <<"cuStreamDestroy", ts[Head(s)].stream>>>>
             ELSE <<<<"task_wait_and_release", Head(s)>>>>)
         \o <<<<"delete", Head(s)>>>> \o ShutdownCalls(Tail(s))

\* The thread_state_cuda / thread_state_llvm of thread u after thread t's shutdown
ShutdownPointer(t, u, p) == IF u = t THEN NULL ELSE p

\* The variable store as jit_shutdown uses it.  A Variable is
\* [scatter, ref_count_ext, ref_count_int, dep]; dep is the id of the Variable
\* it references internally, 0 for none.
Restrict(vm, S) == [i \in S |-> vm[i]]

\* Collection: the Variable leaves the map and its dep loses an internal reference
RECURSIVE JitVarFree(_, _)
JitVarFree(vm, id) ==
    LET d    == vm[id].dep
        rest == Restrict(vm, DOMAIN vm \ {id})
    IN  IF d = 0 \/ d \notin DOMAIN rest THEN rest
        ELSE LET w == [rest EXCEPT ![d].ref_count_int = Dec(@)]
             IN  IF w[d].ref_count_ext = 0 /\ w[d].ref_count_int = 0
                 THEN JitVarFree(w, d) ELSE w

JitVarDecRefExt(vm, id) ==
    LET w == [vm EXCEPT ![id].ref_count_ext = Dec(@)]
    IN  IF w[id].ref_count_ext = 0 /\ w[id].ref_count_int = 0
        THEN JitVarFree(w, id) ELSE w

\* The first loop of the leak pass: the scatters held by one external reference
LeakedScatters(vm) ==
    {i \in DOMAIN vm : vm[i].scatter /\ vm[i].ref_count_ext = 1 /\ vm[i].ref_count_int = 0}

\* The second loop: jit_var_dec_ref_ext(i) for each of them
RECURSIVE ScatterPass(_, _)
ScatterPass(vm, s) ==
    IF s = <<>> THEN vm
    ELSE ScatterPass(IF Head(s) \in DOMAIN vm THEN JitVarDecRefExt(vm, Head(s)) ELSE vm,
                     Tail(s))

\* The third loop, entered with n_leaked reports made so far.  The map is
\* iterated in ascending id order here.
LeakCap == 10
IndividualAtCap(n_leaked) == n_leaked <= LeakCap
Individual(n_leaked)      == n_leaked < LeakCap
RECURSIVE LeakLoop(_, _, _)
LeakLoop(vm, s, n_leaked) ==
    IF s = <<>> THEN <<>>
    ELSE (IF n_leaked = 0 THEN <<<<"Warn", "detected variable leaks">>>> ELSE <<>>)
         \o (IF Individual(n_leaked)
             THEN <<<<"Warn", "variable", Head(s), vm[Head(s)].ref_count_int,
                      vm[Head(s)].ref_count_ext>>>>
             ELSE IF n_leaked = LeakCap THEN <<<<"Warn", "skipping remainder">>>>
             ELSE <<>>)
         \o LeakLoop(vm, Tail(s), n_leaked + 1)

\* What the leak pass logs for the map the scatter pass has left, and x, the
\* number of extra records
LeakLog(vm, x) ==
    LeakLoop(vm, SortedSeq(DOMAIN vm), 0)
    \o (IF Cardinality(DOMAIN vm) > 0
        THEN <<<<"Warn", "variables are still referenced", Cardinality(DOMAIN vm)>>>>
        ELSE <<>>)
    \o (IF DOMAIN vm = {} /\ x > 0 THEN <<<<"Warn", "empty records", x>>>> ELSE <<>>)

\* The leak pass runs when a log level reaches Warn
LeakPassRuns == Max(log_level_stderr, log_level_callback) >= LogLevel.Warn

\* The two fatal checks are made whether or not the leak pass ran
FatalCheckWhenLogged(ran) == ran
FatalCheck(ran)           == TRUE

\* The release of the devices' sub-streams, sub-events and primary contexts
RECURSIVE SubStreamRelease(_, _)
SubStreamRelease(v, k) ==
    IF k > ENOKI_SUB_STREAMS THEN <<>>
    ELSE <<<<"cuEventDestroy", v.sub_events[k]>>, <<"cuStreamDestroy", v.sub_streams[k]>>>>
         \o SubStreamRelease(v, k + 1)

RECURSIVE DeviceRelease(_)
DeviceRelease(s) ==
    IF s = <<>> THEN <<>>
    ELSE SubStreamRelease(Head(s), 1) \o <<<<"cuDevicePrimaryCtxRelease", Head(s).id>>>>
         \o DeviceRelease(Tail(s))

\* The release of the kernel cache: jit_kernel_free() and free(str) for each
\* entry, here in ascending order of the keys (str, device)
KeyBefore(k, m) == k.id < m.id \/ (k.id = m.id /\ k.device <= m.device)
RECURSIVE KernelRelease(_)
KernelRelease(cache) ==
    IF cache = {} THEN <<>>
    ELSE LET v == CHOOSE k \in cache : \A m \in cache : KeyBefore(k, m)
         IN  <<<<"jit_kernel_free", v.device, v.id>>, <<"free", v.id, v.device>>>>
             \o KernelRelease(cache \ {v})

\* The backend libraries are shut down unless the shutdown is a light one
BackendShutdownAlways(light) == TRUE
BackendShutdown(light)       == light = 0

\* state.devices.clear() after the loop over the devices
DevicesKept(devs)    == devs
DevicesCleared(devs) == <<>>

\* jit_fail(): the process is terminated; the mutex is never given back
Abort(t, name, m) ==
    /\ pc' = [pc EXCEPT ![t] = "aborted"]
    /\ op' = [op EXCEPT ![t] = name]
    /\ arg' = [arg EXCEPT ![t] = 0]
    /\ ret' = [ret EXCEPT ![t] = [status |-> "abort", msg |-> m]]

\* The waits of the loop (cuStreamSynchronize, task_wait_and_release) are made
\* with the mutex held: the call gets past them once the awaited work is done
JitShutdown(t, light) ==
    LET vm    == IF LeakPassRuns
                 THEN ScatterPass(variables, SortedSeq(LeakedScatters(variables)))
                 ELSE variables
        freed == DOMAIN variables \ DOMAIN vm
        fatal_cse == FatalCheck(LeakPassRuns) /\ DOMAIN vm = {} /\ cse_cache \ freed # {}
        fatal_ptr == FatalCheck(LeakPassRuns) /\ DOMAIN vm = {}
                     /\ variable_from_ptr \ freed # {}
        fatal == fatal_cse \/ fatal_ptr
    IN
    /\ Called(t)
    /\ \A a \in Range(tss) : IF ts[a].cuda THEN pend[a] = 0 ELSE TaskDone(ts[a].task)
    /\ pre' = [pre EXCEPT ![t] = [tss |-> tss, tsc |-> thread_state_cuda[t],
                                  tsl |-> thread_state_llvm[t], ts |-> NULL]]
    /\ stream_ctx' = [s \in Handles |->
           IF \E a \in Range(tss) : ts[a].cuda /\ ts[a].stream = s
           THEN NULL ELSE stream_ctx[s]]
    /\ event_ctx' = [e \in Handles |->
           IF \E a \in Range(tss) : ts[a].cuda /\ ts[a].event = e
           THEN NULL ELSE event_ctx[e]]
    /\ live' = live \ Range(tss)
    /\ ts' = [a \in TsIds |-> IF a \in Range(tss) THEN NewThreadState ELSE ts[a]]
    /\ owner' = [a \in TsIds |-> IF a \in Range(tss) THEN "t1" ELSE owner[a]]
    /\ tss' = <<>>
    /\ thread_state_llvm' = [u \in Threads |-> ShutdownPointer(t, u, thread_state_llvm[u])]
    /\ thread_state_cuda' = [u \in Threads |-> ShutdownPointer(t, u, thread_state_cuda[u])]
    /\ variables' = vm
    /\ cse_cache' = cse_cache \ freed
    /\ variable_from_ptr' = variable_from_ptr \ freed
    /\ extra' = extra \ freed
    /\ calls' = [calls EXCEPT ![t] =
           ShutdownCalls(tss)
           \o KernelRelease(kernel_cache)
           \o (IF LeakPassRuns THEN LeakLog(vm, Cardinality(extra \ freed)) ELSE <<>>)
           \o (IF fatal_cse THEN <<<<"jit_fail", "common subexpression elimination cache leak">>>>
               ELSE IF fatal_ptr THEN <<<<"jit_fail", "pointer-literal leak">>>>
               ELSE <<<<"jit_registry_shutdown">>, <<"jit_malloc_shutdown">>>>
                    \o (IF has_cuda THEN DeviceRelease(devices) ELSE <<>>)
                    \o (IF BackendShutdown(light)
                        THEN <<<<"jit_llvm_shutdown">>, <<"jit_cuda_shutdown">>>>
                        ELSE <<>>))]
    /\ kernel_cache' = {}
    /\ jitc_llvm' = (IF ~fatal /\ BackendShutdown(light)
                     THEN JitcLlvmShutdown(jitc_llvm) ELSE jitc_llvm)
    /\ devices' = IF has_cuda /\ ~fatal THEN DevicesCleared(devices) ELSE devices
    /\ has_cuda' = (fatal /\ has_cuda)
    /\ has_llvm' = (fatal /\ has_llvm)
    /\ IF fatal
       THEN Abort(t, "shutdown", <<"jit_shutdown()">>)
       ELSE Finish(t, "shutdown", light, Ok)
    /\ UNCHANGED <<pend, mutex>>
    /\ UNCHANGED <<snap, idx, cur, wait, callPending>>
    /\ UNCHANGED <<variable_index, log_level_stderr, log_level_callback, kernel, lib,
                   kernel_stats>>

\* What both specifications share: the API boundary, backend initialization,
\* ThreadState creation up to the caller's choice of address, launches, completion
Common ==
    \/ \E t \in Threads : ApiEnter(t)
    \/ \E t \in Threads : ApiReturn(t)
    \/ \E t \in Threads, llvm \in {0, 1}, cuda \in {0, 1}, lenv \in {NoLibrary, LlvmWorks},
          cuda_ok \in BOOLEAN, acc \in SUBSET (0..(DevCount - 1)) :
          JitInit(t, llvm, cuda, lenv, cuda_ok, DevCount, acc, acc, NoPeer(DevCount))
    \/ \E t \in Threads, cuda \in BOOLEAN : Launch(t, cuda)
    \/ \E a \in TsIds : WorkDone(a)

\* The lifecycle of backends, ThreadStates and devices
Next ==
    \/ Common
    \/ \E t \in Threads, cuda \in BOOLEAN, a \in TsIds : JitInitThreadState(t, cuda, a)
    \/ \E t \in Threads : JitCudaStream(t)
    \/ \E t \in Threads : JitShutdown(t, 0)
    \/ \E t \in Threads, d \in (-1)..DevCount : JitCudaSetDevice(t, d)

Spec == Init /\ [][Next]_vars

\* The synchronization operations, with what runs during their waits: other
\* threads' calls that create ThreadStates, launch and synchronize, and the
\* completion of work.  No ThreadState is freed here, so that addresses are
\* interchangeable and the allocator hands out the lowest.
NextSync ==
    \/ Common
    \/ \E t \in Threads, cuda \in BOOLEAN, a \in TsIds :
          /\ \A b \in TsIds \ live : a <= b
          /\ JitInitThreadState(t, cuda, a)
    \/ \E t \in Threads : JitSyncThread(t)
    \/ \E t \in Threads : JitSyncDevice(t)
    \/ \E t \in Threads : CtxSynchronize(t)
    \/ \E t \in Threads, err \in BOOLEAN : CtxSynchronizeDone(t, err)
    \/ \E t \in Threads : RelockCtx(t)
    \/ \E t \in Threads : SyncDeviceSnapshot(t)
    \/ \E t \in Threads : JitSyncAllDevices(t)
    \/ \E t \in Threads : SnapshotUnlock(t)
    \/ \E t \in Threads : SyncThreadState(t)
    \/ \E t \in Threads, err \in BOOLEAN : SyncThreadStateDone(t, err)
    \/ \E t \in Threads : SyncLoopEnd(t)
    \/ \E t \in Threads : Relock(t)

SpecSync == Init /\ [][NextSync]_vars

\* ----------------------------------------------------- the variable store
\* jit_var_new_*(): the Variable gets the id state.variable_index++ and one
\* external reference; try_emplace leaves an entry that has the id in place
NewVariable(scatter, d) ==
    [scatter |-> scatter, ref_count_ext |-> 1, ref_count_int |-> 0, dep |-> d]

VarNew(t, scatter) ==
    /\ Called(t)
    /\ has_llvm \/ has_cuda
    /\ variable_index <= MaxIds
    /\ variable_index' = variable_index + 1
    /\ variables' = [i \in DOMAIN variables \cup {variable_index} |->
                        IF i \in DOMAIN variables THEN variables[i]
                        ELSE NewVariable(scatter, 0)]
    /\ Finish(t, "var_new", variable_index, Ok)
    /\ UNCHANGED shared
    /\ UNCHANGED <<calls, pre, snap, idx, cur, wait, callPending>>
    /\ UNCHANGED <<cse_cache, variable_from_ptr, extra, log_level_stderr,
                   log_level_callback, kernel, lib, kernel_cache, kernel_stats, jitc_llvm>>

\* The Variables of a program that holds np plain Variables by a handle, has
\* dropped all but one reference of ns scatters, holds nh scatters twice, and
\* has nd scatters that keep their target alive (the target has the smaller id)
PopVar(k, np, ns, nh) ==
    IF k <= np THEN NewVariable(FALSE, 0)
    ELSE IF k <= np + ns THEN NewVariable(TRUE, 0)
    ELSE IF k <= np + ns + nh
         THEN [scatter |-> TRUE, ref_count_ext |-> 2, ref_count_int |-> 0, dep |-> 0]
    ELSE IF (k - (np + ns + nh)) % 2 = 1
         THEN [scatter |-> FALSE, ref_count_ext |-> 0, ref_count_int |-> 1, dep |-> 0]
    ELSE NewVariable(TRUE, k - 1)

Population(np, ns, nh, nd) ==
    [k \in 1..(np + ns + nh + 2 * nd) |-> PopVar(k, np, ns, nh)]

\* A program that has initialized a backend and built Variables; the CSE cache,
\* the pointer-literal map and the extra records may hold an entry, whether
\* or not its Variable exists
InitLeak ==
    /\ has_llvm = TRUE /\ has_cuda \in BOOLEAN
    /\ devices = (IF has_cuda THEN Enumerate({0}) ELSE <<>>)
    /\ InitThreads
    /\ \E np \in 0..MaxLeaks, ns \in 0..MaxScatters, nh \in 0..1, nd \in 0..1 :
          /\ np + ns + nh + 2 * nd <= MaxLeaks
          /\ variables = Population(np, ns, nh, nd)
          /\ variable_index = np + ns + nh + 2 * nd + 1
    /\ cse_cache \in {{}, {1}}
    /\ variable_from_ptr \in {{}, {2}}
    /\ extra \in {{}, {1}}
    /\ log_level_stderr \in {LogLevel.Error, LogLevel.Warn}
    /\ log_level_callback \in {LogLevel.Disable, LogLevel.Warn}
    /\ lib = NoLib
    /\ InitBackends

\* Shutdown of such a program
NextLeak ==
    \/ \E t \in Threads : ApiEnter(t)
    \/ \E t \in Threads : ApiReturn(t)
    \/ \E t \in Threads : JitShutdown(t, 0)

SpecLeak == InitLeak /\ [][NextLeak]_vars

\* The id counter over jit_init(), creations of Variables and jit_shutdown()
NextIds ==
    \/ \E t \in Threads : ApiEnter(t)
    \/ \E t \in Threads : ApiReturn(t)
    \/ \E t \in Threads, llvm \in {0, 1}, cuda \in {0, 1} :
          JitInit(t, llvm, cuda, LlvmWorks, TRUE, 1, {0}, {0}, NoPeer(1))
    \/ \E t \in Threads, scatter \in BOOLEAN : VarNew(t, scatter)
    \/ \E t \in Threads : JitShutdown(t, 0)

SpecIds == Init /\ [][NextIds]_vars

\* -------------------------------------------------------- jit_find_library
\* A C string is the sequence of its characters; NUL is what is read at its end
NUL      == ""
Digits   == <<"0", "1", "2", "3", "4", "5", "6", "7", "8", "9">>
IsDigit(ch) == \E d \in 1..10 : Digits[d] = ch
DigitOf(ch) == (CHOOSE d \in 1..10 : Digits[d] = ch) - 1
Ch(s, i) == IF i <= Len(s) THEN s[i] ELSE NUL

\* The value of a character as unsigned char (ASCII)
Byte(ch) ==
    IF ch = NUL THEN 0
    ELSE IF IsDigit(ch) THEN 48 + DigitOf(ch)
    ELSE IF ch = "-" THEN 45
    ELSE IF ch = "." THEN 46
    ELSE IF ch = "/" THEN 47
    ELSE 97

\* strcmp(a + i, b + j) < 0
RECURSIVE StrLess(_, _, _, _)
StrLess(a, i, b, j) ==
    IF Byte(Ch(a, i)) # Byte(Ch(b, j)) THEN Byte(Ch(a, i)) < Byte(Ch(b, j))
    ELSE IF Ch(a, i) = NUL THEN FALSE
    ELSE StrLess(a, i + 1, b, j + 1)

\* A long (64 bits) as four 16-bit limbs, lowest first; sat: the value went
\* past LONG_MAX, which strtol then returns
Limb == 65536
LongZero == [l |-> <<0, 0, 0, 0>>, sat |-> FALSE]
MulAdd(v, d) ==
    LET x1 == v.l[1] * 10 + d
        x2 == v.l[2] * 10 + (x1 \div Limb)
        x3 == v.l[3] * 10 + (x2 \div Limb)
        x4 == v.l[4] * 10 + (x3 \div Limb)
    IN  [l   |-> <<x1 % Limb, x2 % Limb, x3 % Limb, x4 % Limb>>,
         sat |-> v.sat \/ x4 >= Limb \div 2]

\* strtol(a + i, &end, 10) on a digit run: the value and the index of end
RECURSIVE Strtol(_, _, _)
Strtol(a, i, v) ==
    IF IsDigit(Ch(a, i)) THEN Strtol(a, i + 1, MulAdd(v, DigitOf(Ch(a, i))))
    ELSE [val |-> v, end |-> i]

\* int ai = strtol(...): the low 32 bits of the long, as a signed int
ToInt(v) ==
    IF v.sat THEN -1
    ELSE IF v.l[2] >= Limb \div 2 THEN (v.l[2] - Limb) * Limb + v.l[1]
    ELSE v.l[2] * Limb + v.l[1]

\* The comparator given to std::sort, on a + i and b + j
RECURSIVE Compare(_, _, _, _)
Compare(a, i, b, j) ==
    IF Ch(a, i) = Ch(b, j) /\ Ch(a, i) # NUL /\ ~IsDigit(Ch(a, i))
    THEN Compare(a, i + 1, b, j + 1)
    ELSE IF IsDigit(Ch(a, i)) /\ IsDigit(Ch(b, j))
    THEN LET ap == Strtol(a, i, LongZero)
             bp == Strtol(b, j, LongZero)
         IN  IF ToInt(ap.val) # ToInt(bp.val) THEN ToInt(ap.val) < ToInt(bp.val)
             ELSE Compare(a, ap.end, b, bp.end)
    ELSE StrLess(a, i, b, j)

Less(a, b) == Compare(a, 1, b, 1)

\* What std::sort may leave: an arrangement of pathv in which no path is
\* before one that compares less than it
Arrangements(pathv) ==
    {q \in [1..Len(pathv) -> Range(pathv)] :
        /\ \A x \in Range(pathv) : \E k \in 1..Len(pathv) : q[k] = x
        /\ \A k, m \in 1..Len(pathv) : k < m => ~Less(q[m], q[k])}

\* The two passes over the sorted paths: the last path that the first pass does
\* not skip, or the last path when it skips all; links: the paths on which
\* lstat fails or reports S_ISLNK
ChosenLast(q, links) == q[Len(q)]
Chosen(q, links) ==
    LET plain == {k \in 1..Len(q) : q[k] \notin links}
    IN  IF plain # {} THEN q[CHOOSE k \in plain : \A m \in plain : m <= k]
        ELSE q[Len(q)]

\* A pointer: <<>> is nullptr, <<x>> points to x
Ptr(x) == <<x>>
Dlopen(path, loadable) == IF path \in loadable THEN Ptr(path) ELSE <<>>

\* getenv(env_var), an empty value taken as unset
EnvVarVal(env) == IF env = <<>> \/ Len(env[1]) = 0 THEN <<>> ELSE env

\* With the override set a failed load ends the search
EnvEndsSearchNever(env_var_val) == FALSE
EnvEndsSearch(env_var_val)      == env_var_val # <<>>

\* The POSIX branch.  lib holds fname, the value of the environment variable,
\* what glob() returns, the paths on which lstat fails, the symbolic links among
\* the others and the paths dlopen can load
JitFindLibrary ==
    LET env_var_val == EnvVarVal(lib.env)
        first  == IF env_var_val # <<>> THEN env_var_val[1] ELSE lib.fname
        handle == Dlopen(first, lib.loadable)
    IN
    /\ ~lib.done
    /\ IF handle # <<>> \/ EnvEndsSearch(env_var_val) \/ lib.glob.rc # 0
       THEN lib' = [lib EXCEPT !.done = TRUE, !.ret = handle, !.tried = <<first>>]
       ELSE \E q \in Arrangements(lib.glob.pathv) :
               LET chosen == IF Len(lib.glob.pathv) > 1
                             THEN Chosen(q, lib.nostat \cup lib.links)
                             ELSE lib.glob.pathv[1]
               IN  lib' = [lib EXCEPT !.done = TRUE,
                                      !.ret = Dlopen(chosen, lib.loadable),
                                      !.tried = <<first, chosen>>]
    /\ UNCHANGED <<shared, locals>>
    /\ UNCHANGED <<variables, cse_cache, variable_from_ptr, extra, variable_index,
                   log_level_stderr, log_level_callback, kernel, kernel_cache, kernel_stats,
                   jitc_llvm>>

\* The file names of the calls examined
Fname     == <<"a">>
EnvPath   == <<"/", "a">>
Versions  == {<<"a", "-", "9">>, <<"a", "-", "1", "0">>, <<"a", "-", "0", "9">>}

\* glob() fails or returns between one and MaxPaths of the versions, in any order
MaxPaths == 3
Globs ==
    {[rc |-> 1, pathv |-> <<>>]}
    \cup {[rc |-> 0, pathv |-> q] : q \in
            {q \in UNION {[1..k -> Versions] : k \in 1..MaxPaths} :
                \A k, m \in 1..Len(q) : q[k] = q[m] => k = m}}

\* One call of jit_find_library for each environment and file system
InitLib ==
    /\ has_cuda = FALSE /\ has_llvm = FALSE /\ devices = <<>>
    /\ InitThreads
    /\ variables = [i \in {} |-> 0]
    /\ cse_cache = {} /\ variable_from_ptr = {} /\ extra = {}
    /\ variable_index = 1
    /\ log_level_stderr = LogLevel.Info /\ log_level_callback = LogLevel.Disable
    /\ \E env \in {<<>>, Ptr(<<>>), Ptr(EnvPath)}, glob \in Globs,
          nostat \in SUBSET Versions, loadable \in SUBSET (Versions \cup {Fname, EnvPath}) :
          \E links \in SUBSET (Versions \ nostat) :
          lib = [done |-> FALSE, fname |-> Fname, env |-> env, glob |-> glob,
                 nostat |-> nostat, links |-> links, loadable |-> loadable,
                 ret |-> <<>>, tried |-> <<>>]
    /\ InitBackends

NextLib == JitFindLibrary

SpecLib == InitLib /\ [][NextLib]_vars

\* The strings the comparator is examined on: up to MaxParts of these parts
MaxParts == 2
Parts ==
    {<<"a">>, <<"-">>, <<"0">>, <<"9">>, <<"1", "0">>,
     <<"4", "2", "9", "4", "9", "6", "7", "2", "9", "6">>}
RECURSIVE Words(_)
Words(k) ==
    IF k = 0 THEN {<<>>}
    ELSE Words(k - 1) \cup {w \o x : w \in Words(k - 1), x \in Parts}

\* Three candidate paths and the comparator's answers on them
InitSort ==
    /\ has_cuda = FALSE /\ has_llvm = FALSE /\ devices = <<>>
    /\ InitThreads
    /\ variables = [i \in {} |-> 0]
    /\ cse_cache = {} /\ variable_from_ptr = {} /\ extra = {}
    /\ variable_index = 1
    /\ log_level_stderr = LogLevel.Info /\ log_level_callback = LogLevel.Disable
    /\ \E a \in Words(MaxParts), b \in Words(MaxParts), c \in Words(MaxParts) :
          lib = [done |-> FALSE, a |-> a, b |-> b, c |-> c, less |-> <<>>]
    /\ InitBackends

SortCompare ==
    /\ ~lib.done
    /\ lib' = [lib EXCEPT !.done = TRUE,
                          !.less = [aa |-> Less(lib.a, lib.a), ab |-> Less(lib.a, lib.b),
                                    ba |-> Less(lib.b, lib.a), bc |-> Less(lib.b, lib.c),
                                    cb |-> Less(lib.c, lib.b), ac |-> Less(lib.a, lib.c),
                                    ca |-> Less(lib.c, lib.a)]]
    /\ UNCHANGED <<shared, locals>>
    /\ UNCHANGED <<variables, cse_cache, variable_from_ptr, extra, variable_index,
                   log_level_stderr, log_level_callback, kernel, kernel_cache, kernel_stats,
                   jitc_llvm>>

NextSort == SortCompare

SpecSort == InitSort /\ [][NextSort]_vars

\* ------------------------------------------- enumeration and peer access
\* The driver's answers: the devices in reach can be accessed as peers, and
\* enabling peer access from device a gives r[a]
PeerOf(n, reach, r) == [p \in Pairs(n) |-> IF p[2] \in reach THEN r[p[1]] ELSE "no"]

\* jit_init() with every answer of the driver about attributes and peers; the
\* answers are drawn for the calls that get to ask the driver
NextInit ==
    \/ \E t \in Threads : ApiEnter(t)
    \/ \E t \in Threads : ApiReturn(t)
    \/ \E t \in Threads :
          /\ Called(t)
          /\ \E llvm \in {0, 1}, cuda \in {0, 1} :
                IF has_llvm \/ has_cuda \/ cuda = 0
                THEN JitInit(t, llvm, cuda, LlvmWorks, TRUE, EnumCount, {}, {},
                             NoPeer(EnumCount))
                ELSE \E cuda_ok \in BOOLEAN,
                        unified \in SUBSET (0..(EnumCount - 1)),
                        managed \in SUBSET (0..(EnumCount - 1)),
                        reach \in SUBSET (0..(EnumCount - 1)),
                        r \in [0..(EnumCount - 1) -> PeerResults \ {"no"}] :
                        JitInit(t, llvm, cuda, LlvmWorks, cuda_ok, EnumCount, unified,
                                managed, PeerOf(EnumCount, reach, r))
    \/ \E t \in Threads : JitShutdown(t, 0)

SpecInit == Init /\ [][NextInit]_vars

\* Shutdown next to jit_sync_all_devices(): both backends load, one device is
\* accepted, no wait fails, the allocator hands out the lowest free address
NextDrain ==
    \/ \E t \in Threads : ApiEnter(t)
    \/ \E t \in Threads : ApiReturn(t)
    \/ \E t \in Threads, llvm \in {0, 1}, cuda \in {0, 1} :
          JitInit(t, llvm, cuda, LlvmWorks, TRUE, 1, {0}, {0}, NoPeer(1))
    \/ \E t \in Threads, cuda \in BOOLEAN : Launch(t, cuda)
    \/ \E a \in TsIds : WorkDone(a)
    \/ \E t \in Threads, cuda \in BOOLEAN, a \in TsIds :
          /\ \A b \in TsIds \ live : a <= b
          /\ JitInitThreadState(t, cuda, a)
    \/ \E t \in Threads : JitSyncAllDevices(t)
    \/ \E t \in Threads : SnapshotUnlock(t)
    \/ \E t \in Threads : SyncThreadState(t)
    \/ \E t \in Threads : SyncThreadStateDone(t, FALSE)
    \/ \E t \in Threads : SyncLoopEnd(t)
    \/ \E t \in Threads : Relock(t)
    \/ \E t \in Threads : JitShutdown(t, 0)

SpecDrain == Init /\ [][NextDrain]_vars

\* ------------------------------------------------------- the kernel cache
\* The evaluation of a kernel with fingerprint k by thread t on its ThreadState
\* of the given backend: a hit in state.kernel_cache, or a miss that loads the
\* kernel from disk (soft) or compiles it (hard) and inserts it
MaxKernels  == 2
MaxLaunches == 2
KernelLoad(t, cuda, k, disk) ==
    /\ HasThreadState(t, cuda)
    /\ (IF cuda THEN thread_state_cuda[t] ELSE thread_state_llvm[t]) \in live
    /\ kernel_stats.launches < MaxLaunches
    /\ LET a   == IF cuda THEN thread_state_cuda[t] ELSE thread_state_llvm[t]
           key == [id |-> k, device |-> ts[a].device]
       IN  /\ kernel_cache' = kernel_cache \cup {key}
           /\ kernel_stats' =
                 IF key \in kernel_cache
                 THEN [kernel_stats EXCEPT !.hits = @ + 1, !.launches = @ + 1]
                 ELSE IF disk
                 THEN [kernel_stats EXCEPT !.soft_misses = @ + 1, !.launches = @ + 1]
                 ELSE [kernel_stats EXCEPT !.hard_misses = @ + 1, !.launches = @ + 1]
    /\ Finish(t, "kernel_load", k, Ok)
    /\ UNCHANGED shared
    /\ UNCHANGED <<calls, pre, snap, idx, cur, wait, callPending>>
    /\ UNCHANGED <<variables, cse_cache, variable_from_ptr, extra, variable_index,
                   log_level_stderr, log_level_callback, kernel, lib, jitc_llvm>>

\* Initialization, ThreadStates, kernels and shutdown, light or not: both
\* backends load, the driver accepts the devices drawn, the allocator hands out
\* the lowest free address
NextLife ==
    \/ \E t \in Threads : ApiEnter(t)
    \/ \E t \in Threads : ApiReturn(t)
    \/ \E t \in Threads, llvm \in {0, 1}, cuda \in {0, 1}, acc \in SUBSET (0..(DevCount - 1)) :
          JitInit(t, llvm, cuda, LlvmWorks, TRUE, DevCount, acc, acc, NoPeer(DevCount))
    \/ \E t \in Threads, cuda \in BOOLEAN, a \in TsIds :
          /\ \A b \in TsIds \ live : a <= b
          /\ JitInitThreadState(t, cuda, a)
    \/ \E t \in Threads, cuda \in BOOLEAN, k \in 1..MaxKernels, disk \in BOOLEAN :
          KernelLoad(t, cuda, k, disk)
    \/ \E t \in Threads, light \in {0, 1} : JitShutdown(t, light)

SpecLife == Init /\ [][NextLife]_vars

\* ----------------------------------------------- the LLVM backend's lifecycle
\* jit_llvm_set_target() behind the API boundary
JitLlvmSetTarget(t, target_cpu, target_features, vector_width) ==
    /\ Called(t)
    /\ jitc_llvm' = JitcLlvmSetTarget(jitc_llvm, target_cpu, target_features, vector_width)
    /\ Finish(t, "llvm_set_target", vector_width, Ok)
    /\ UNCHANGED shared
    /\ UNCHANGED <<calls, pre, snap, idx, cur, wait, callPending>>
    /\ UNCHANGED <<variables, cse_cache, variable_from_ptr, extra, variable_index,
                   log_level_stderr, log_level_callback, kernel, lib, kernel_cache, kernel_stats>>

\* The targets a caller sets
TargetWidths   == {4, 16}
TargetFeatures == {Null, <<{"+avx"}>>}

\* jit_init() for the LLVM backend with everything an attempt may find,
\* jit_llvm_set_target() and jit_shutdown(), light or not, called by one
\* thread.  What the attempt finds is drawn for the calls that make one
LlvmThreads == {"t1"}
NextLlvm ==
    \/ \E t \in LlvmThreads : ApiEnter(t)
    \/ \E t \in LlvmThreads : ApiReturn(t)
    \/ \E t \in LlvmThreads :
          /\ Called(t)
          /\ \E llvm \in {0, 1} :
                IF has_llvm \/ llvm = 0 \/ jitc_llvm.init_attempted
                THEN JitInit(t, llvm, 0, NoLibrary, FALSE, 0, {}, {}, NoPeer(0))
                ELSE \E lenv \in LlvmEnvs :
                        JitInit(t, llvm, 0, lenv, FALSE, 0, {}, {}, NoPeer(0))
    \/ \E t \in LlvmThreads, f \in TargetFeatures, w \in TargetWidths :
          JitLlvmSetTarget(t, "generic", f, w)
    \/ \E t \in LlvmThreads, light \in {0, 1} : JitShutdown(t, light)

SpecLlvm == Init /\ [][NextLlvm]_vars

\* -------------------------------------------------------- jitc_llvm_compile
\* The pass pipelines of a dynamically resolved LLVM (LLVM_VERSION_MAJOR is
\* not defined): which of the two blocks run
RunsLegacyWhenResolved(api) == JitcLlvmApiHas(api, "pb_legacy")
RunsLegacy(api) == JitcLlvmApiHas(api, "pb_legacy") /\ ~JitcLlvmApiHas(api, "pb_new")
RunsNew(api)    == JitcLlvmApiHas(api, "pb_new")

\* DRJIT_RUN_LEGACY_PASS_MANAGER() and DRJIT_RUN_NEW_PASS_MANAGER(): the calls
\* each makes; failed: LLVMRunPasses returned an error (jitc_fail follows)
LegacyPassManager == <<<<"LLVMCreatePassManager">>, <<"LLVMAddLICMPass">>,
                       <<"LLVMRunPassManager">>, <<"LLVMDisposePassManager">>>>
NewPassManager(failed) ==
    <<<<"LLVMCreatePassBuilderOptions">>, <<"LLVMRunPasses", "default<O2>">>>>
    \o (IF failed THEN <<>> ELSE <<<<"LLVMDisposePassBuilderOptions">>>>)
PassPipeline(api, failed) ==
    (IF RunsLegacy(api) THEN LegacyPassManager ELSE <<>>)
    \o (IF RunsNew(api) THEN NewPassManager(failed) ELSE <<>>)

\* std::vector<uint8_t *> reloc(callable_count_unique ? (callable_count_unique + 2) : 1)
RelocCount(callable_count_unique) ==
    IF callable_count_unique # 0 THEN callable_count_unique + 2 ELSE 1

\* jitc_llvm_orcv2_compile / jitc_llvm_mcjit_compile, with what the engine
\* left in the memory manager's buffer and in reloc
EngineCompile(use_orcv2, eng) ==
    IF use_orcv2 THEN <<"jitc_llvm_orcv2_compile", eng>>
    ELSE <<"jitc_llvm_mcjit_compile", eng>>

\* kernel.llvm.reloc[i] = (uint8_t *) ptr + (reloc[i] - jitc_llvm_memmgr_data)
RelocateUnmoved(ptr, r, memmgr_data) == r
Relocate(ptr, r, memmgr_data) == ptr + (r - memmgr_data)

\* The protection flags of the two system calls
PROT_READ_WRITE == {"r", "w"}
PROT_READ_EXEC  == {"r", "x"}

\* The points at which jitc_llvm_compile ends the process with jitc_fail
CompileFailures == {"none", "parse", "verify", "passes", "got", "mmap", "mprotect"}
MsgCompile == <<"jit_llvm_compile()">>

\* What the engine compiled into the memory manager's buffer: the buffer's
\* address and size (jitc_llvm_memmgr_data, jitc_llvm_memmgr_offset) and the
\* offsets in it of the addresses the engine stores into reloc
MaxCallables == 1
MaxCode      == 2
MemmgrData   == 16
PageAddrs    == {8, 32}
EngineResults(n) ==
    {[data |-> MemmgrData, size |-> size, offs |-> offs] :
        size \in {MaxCode}, offs \in [1..n -> 0..(MaxCode - 1)]}

\* The calls of jitc_llvm_compile from the engine's compilation to the end,
\* for the memory ptr that mmap() returned
CompileMemory(ptr, eng, n, fail) ==
    IF fail = "got" THEN <<>>
    ELSE IF fail = "mmap" THEN <<<<"mmap", NULL, PROT_READ_WRITE>>>>
    ELSE <<<<"mmap", ptr, PROT_READ_WRITE>>, <<"memcpy", ptr, eng.size>>>>
         \o (IF n > 1
             THEN <<<<"store", Relocate(ptr, eng.data + eng.offs[2], eng.data)>>>>
             ELSE <<>>)
         \o <<<<"mprotect", ptr, PROT_READ_EXEC>>>>

\* jitc_llvm_compile(kernel) for a program with callable_count_unique callables.
\* The caller evaluates on an LLVM ThreadState, which exists only while
\* state.has_llvm is set
JitLlvmCompile(t, callable_count_unique, eng, ptr, fail) ==
    LET n     == RelocCount(callable_count_unique)
        early == fail \in {"parse", "verify"}
        pipe  == PassPipeline(jitc_llvm.api, fail = "passes")
        filled == fail \in {"none", "mprotect"}
    IN
    /\ Called(t)
    /\ has_llvm
    /\ fail = "passes" => RunsNew(jitc_llvm.api)
    /\ calls' = [calls EXCEPT ![t] =
           <<<<"LLVMParseIRInContext">>>>
           \o (IF fail = "parse" THEN <<>> ELSE <<<<"LLVMVerifyModule">>>>)
           \o (IF early THEN <<>> ELSE pipe)
           \o (IF early \/ fail = "passes" THEN <<>>
               ELSE <<EngineCompile(jitc_llvm.use_orcv2, eng)>>
                    \o CompileMemory(ptr, eng, n, fail))]
    /\ kernel' = [kernel EXCEPT ![t] =
           IF filled
           THEN [data |-> ptr, size |-> eng.size, n_reloc |-> n,
                 reloc |-> [i \in 1..n |-> Relocate(ptr, eng.data + eng.offs[i], eng.data)]]
           ELSE @]
    /\ IF fail = "none"
       THEN Finish(t, "llvm_compile", callable_count_unique, Ok)
       ELSE Abort(t, "llvm_compile", MsgCompile)
    /\ UNCHANGED shared
    /\ UNCHANGED <<pre, snap, idx, cur, wait, callPending>>
    /\ UNCHANGED <<variables, cse_cache, variable_from_ptr, extra, variable_index,
                   log_level_stderr, log_level_callback, lib, kernel_cache,
                   kernel_stats, jitc_llvm>>

\* What an attempt of jitc_llvm_init may find on a host with a usable vector
\* ISA: every set of resolved capabilities and every outcome of the engines
CompileEnvs ==
    {NoLibrary} \cup
    {e \in LlvmEnvs \ {NoLibrary} :
        e.features = LlvmWorks.features /\ e.disasm = LlvmWorks.disasm}

\* jit_init() for the LLVM backend with every set of capabilities and engines,
\* compilations with and without callables and with every failure, and
\* jit_shutdown(), light or not, called by one thread
NextCompile ==
    \/ \E t \in LlvmThreads : ApiEnter(t)
    \/ \E t \in LlvmThreads : ApiReturn(t)
    \/ \E t \in LlvmThreads :
          /\ Called(t)
          /\ \E llvm \in {0, 1} :
                IF has_llvm \/ llvm = 0 \/ jitc_llvm.init_attempted
                THEN JitInit(t, llvm, 0, NoLibrary, FALSE, 0, {}, {}, NoPeer(0))
                ELSE \E lenv \in CompileEnvs :
                        JitInit(t, llvm, 0, lenv, FALSE, 0, {}, {}, NoPeer(0))
    \/ \E t \in LlvmThreads :
          /\ Called(t) /\ has_llvm
          /\ \E c \in 0..MaxCallables, ptr \in PageAddrs, fail \in CompileFailures :
                \E eng \in EngineResults(RelocCount(c)) :
                    JitLlvmCompile(t, c, eng, ptr, fail)
    \/ \E t \in LlvmThreads, light \in {0, 1} : JitShutdown(t, light)

SpecCompile == Init /\ [][NextCompile]_vars

\* ========================================================== the lifecycle
\* The backend a registered ThreadState belongs to, and its (thread, backend) pair
Pair(a) == <<owner[a], ts[a].cuda>>

\* C6: state.tss contains at most one ThreadState per (thread, backend) pair,
\* and a thread's non-null thread-local pointer is exactly the ThreadState
\* registered for that pair.
C6_OnePerPair ==
    /\ \A i \in DOMAIN tss, j \in DOMAIN tss : i # j => Pair(tss[i]) # Pair(tss[j])
    /\ \A t \in Threads :
          /\ thread_state_cuda[t] # NULL =>
                /\ thread_state_cuda[t] \in Range(tss)
                /\ Pair(thread_state_cuda[t]) = <<t, TRUE>>
          /\ thread_state_llvm[t] # NULL =>
                /\ thread_state_llvm[t] \in Range(tss)
                /\ Pair(thread_state_llvm[t]) = <<t, FALSE>>

\* The text pieces of an error message that are environment variables
EnvVars == {"ENOKI_LIBCUDA_PATH", "ENOKI_LIBLLVM_PATH"}
EnvVarsNamed(m) == Range(m) \cap EnvVars

\* jit_init_thread_state has raised in thread t: nothing was registered and the
\* thread-local pointers are what they were
InitFailed(t) == pc[t] = "ret" /\ op[t] = "init_thread_state"
InitFailureLeavesState(t) ==
    /\ tss = pre[t].tss
    /\ thread_state_cuda[t] = pre[t].tsc
    /\ thread_state_llvm[t] = pre[t].tsl

\* C8 as stated: jit_init_thread_state on an unavailable backend, and on the GPU
\* backend with no accepted device, raises an error whose message names the
\* environment variable to set; no ThreadState is added to state.tss and the
\* thread-local pointer is unchanged.
C8_ErrorNamesVariable ==
    \A t \in Threads :
        InitFailed(t) =>
            /\ ret[t].status = "raise"
            /\ EnvVarsNamed(ret[t].msg) # {}
            /\ InitFailureLeavesState(t)

\* C8 amended: on an unavailable backend the error names the variable of that
\* backend; with the GPU backend available and no accepted device the call
\* raises too, with a message that names no environment variable; a ThreadState
\* is created only on an available backend (with a device, for the GPU).  In
\* each error case state.tss and the thread-local pointers are unchanged.
C8_ErrorCases ==
    \A t \in Threads :
        /\ InitFailed(t) =>
              /\ ret[t].status = "raise"
              /\ InitFailureLeavesState(t)
              /\ IF arg[t] = 1
                 THEN IF has_cuda
                      THEN devices = <<>> /\ EnvVarsNamed(ret[t].msg) = {}
                      ELSE EnvVarsNamed(ret[t].msg) = {"ENOKI_LIBCUDA_PATH"}
                 ELSE ~has_llvm /\ EnvVarsNamed(ret[t].msg) = {"ENOKI_LIBLLVM_PATH"}
        /\ pc[t] = "api" /\ op[t] = "init_thread_state" =>
              IF thread_state_cuda[t] # pre[t].tsc
              THEN has_cuda /\ devices # <<>>
              ELSE has_llvm /\ thread_state_llvm[t] # pre[t].tsl

\* the GPU backend is available, no device was accepted, the call has raised
C8_Witness ==
    \E t \in Threads :
        /\ InitFailed(t) /\ arg[t] = 1 /\ has_cuda /\ devices = <<>>
        /\ ret[t].status = "raise" /\ ret[t].msg # <<>>

\* jit_cuda_set_device(d) has returned in thread t, from a ThreadState that exists
SetDeviceReturned(t) ==
    pc[t] = "ret" /\ op[t] = "set_device" /\ thread_state_cuda[t] \in live
InRange(d) == d >= 0 /\ d < Len(devices)

\* C9: jit_cuda_set_device(d), for a valid d different from the current device,
\* synchronizes the old stream, destroys the old event and stream, installs
\* devices[d].context and d, creates a fresh stream and event in the new
\* context, in this order; on return ts->device = d, ts->context is
\* devices[d].context and ts->stream / ts->event are the created ones.
C9_SetDeviceOrder ==
    \A t \in Threads :
        SetDeviceReturned(t) /\ ret[t].status = "ok" /\ pre[t].ts.device # arg[t] =>
            LET r == pre[t].ts
                n == ts[thread_state_cuda[t]]
            IN /\ InRange(arg[t])
               /\ calls[t] = << <<"cuStreamSynchronize", r.stream>>,
                                <<"cuEventDestroy", r.event>>,
                                <<"cuStreamDestroy", r.stream>>,
                                <<"install", arg[t]>>,
                                <<"cuStreamCreate", n.stream>>,
                                <<"cuEventCreate", n.event>> >>
               /\ n.device = arg[t]
               /\ n.context = devices[arg[t] + 1].context
               /\ StreamLive(n.stream) /\ stream_ctx[n.stream] = n.context
               /\ EventLive(n.event) /\ event_ctx[n.event] = n.context

\* a switch between two devices, hence two contexts, has returned
C9_Witness ==
    \E t \in Threads :
        /\ SetDeviceReturned(t) /\ ret[t].status = "ok"
        /\ pre[t].ts.device # arg[t]
        /\ pre[t].ts.context # ts[thread_state_cuda[t]].context
        /\ owner[thread_state_cuda[t]] = t

\* C10: jit_cuda_set_device(d) with d outside 0..|state.devices|-1 returns an
\* error and leaves the ThreadState's device, context, stream and event
\* unchanged, with no synchronization or destruction performed.
C10_OutOfRangeRaises ==
    \A t \in Threads :
        SetDeviceReturned(t) /\ ~InRange(arg[t]) =>
            /\ ret[t].status = "raise"
            /\ calls[t] = <<>>
            /\ ts[thread_state_cuda[t]] = pre[t].ts

\* ======================================================= the sync operations
SyncOps == {"sync_thread", "sync_device", "sync_all"}

\* Thread t is inside a blocking wait that has not been satisfied yet
Blocked(t) == pc[t] \in {"wait", "wait_ctx"} /\ wait[t] # Zero

\* C1: in jit_sync_thread(), jit_sync_device() and jit_sync_all_devices() the
\* calling thread does not hold state.mutex during any blocking wait
\* (cuStreamSynchronize, cuCtxSynchronize, task_wait_and_release), and it holds
\* the mutex again when the operation returns or raises.
C1_NoWaitUnderMutex ==
    \A t \in Threads :
        /\ (pc[t] \in {"wait", "wait_ctx"} => mutex # t)
        /\ (pc[t] = "ret" /\ op[t] \in SyncOps => mutex = t)

\* a thread is blocked in a sync while another thread works under the mutex,
\* and that other thread's own sync has raised and re-acquired the mutex
C1_Witness ==
    \E t \in Threads, u \in Threads :
        /\ t # u /\ Blocked(t)
        /\ mutex = u /\ pc[u] = "ret" /\ op[u] \in SyncOps /\ ret[u].status = "raise"

\* C2: jit_sync_device() and jit_sync_all_devices() copy state.tss while the
\* mutex is still held, release it only after the copy is complete, and during
\* the blocking syncs iterate only over that copy, never over state.tss itself.
C2_SnapshotIterated ==
    \A t \in Threads :
        /\ (pc[t] = "snapped" => mutex = t /\ snap[t] = tss)
        /\ (pc[t] = "wait" /\ op[t] \in {"sync_device", "sync_all"} =>
               IF idx[t] \in DOMAIN snap[t] THEN cur[t].p = snap[t][idx[t]] ELSE FALSE)
        /\ (pc[t] = "relock" /\ op[t] \in {"sync_device", "sync_all"}
              /\ ret[t].status = "ok" => idx[t] = Len(snap[t]) + 1)

\* a thread is blocked on an element of its copy after state.tss has grown
C2_Witness ==
    \E t \in Threads :
        /\ Blocked(t) /\ pc[t] = "wait" /\ op[t] \in {"sync_device", "sync_all"}
        /\ Len(tss) > Len(snap[t])

\* C3: when jit_sync_thread() returns, all work the calling thread issued before
\* the call on its GPU ThreadState's stream and on its CPU ThreadState's task has
\* completed, and the CPU ThreadState's task handle is null.
C3_SyncThreadCompletes ==
    \A t \in Threads :
        pc[t] = "ret" /\ op[t] = "sync_thread" /\ ret[t].status = "ok" =>
            callPending[t] = Zero

\* C4: when jit_sync_device() returns, all work issued before the call on the
\* context of the caller's current GPU device and on every registered CPU
\* ThreadState has completed, whichever ThreadStates the caller owns.
C4_SyncDeviceCompletes ==
    \A t \in Threads :
        pc[t] = "ret" /\ op[t] = "sync_device" /\ ret[t].status = "ok" =>
            callPending[t] = Zero

\* C5: when jit_sync_all_devices() returns, no ThreadState that was registered
\* in state.tss when the call started has outstanding work issued before the call.
C5_SyncAllCompletes ==
    \A t \in Threads :
        pc[t] = "ret" /\ op[t] = "sync_all" /\ ret[t].status = "ok" =>
            callPending[t] = Zero

\* C7: no field of a ThreadState registered in state.tss is written by a thread
\* that has released state.mutex: a step of thread t that changes a registered
\* ThreadState is made with the mutex held by t.
C7_WritesUnderMutex ==
    [][\A t \in Threads :
          (/\ <<pc[t], op[t], idx[t]>>' # <<pc[t], op[t], idx[t]>>
           /\ \E a \in Range(tss) : ts'[a] # ts[a])
          => mutex = t]_vars

\* ------------------------------------------------------------------- C11
ShutdownReturned(t) == pc[t] = "ret" /\ op[t] = "shutdown"

\* The calls of the shutdown loop for the ThreadState at address a, as they
\* stand at position i of the log
DrainedAt(c, i, a) ==
    /\ i + 2 <= Len(c)
    /\ c[i] = <<"jit_free_flush", a>>
    /\ \/ c[i + 1] = <<"task_wait_and_release", a>>
       \/ /\ i + 3 <= Len(c)
          /\ c[i + 1][1] = "cuStreamSynchronize"
          /\ c[i + 2][1] = "cuEventDestroy"
          /\ c[i + 3] = <<"cuStreamDestroy", c[i + 1][2]>>

\* C11: jit_shutdown drains every registered ThreadState (pending frees
\* flushed, then the stream synchronized before its event and stream are
\* destroyed, or the task awaited and released); when it returns no ThreadState
\* has outstanding work, state.tss is empty and the caller's thread-local
\* ThreadState pointers are null
C11_ShutdownDrains ==
    \A t \in Threads : ShutdownReturned(t) =>
        /\ \A a \in Range(pre[t].tss) : \E i \in 1..Len(calls[t]) : DrainedAt(calls[t], i, a)
        /\ \A a \in Range(pre[t].tss) : pend[a] = 0
        /\ tss = <<>>
        /\ thread_state_cuda[t] = NULL /\ thread_state_llvm[t] = NULL

\* ------------------------------------------------------------------- C12
\* Thread t executes jit_shutdown() in this step
ShutdownStep(t) == pc[t] = "api" /\ op[t] = "none" /\ op'[t] = "shutdown"

\* The individual leak reports in the log c, and those that name Variable i
Reports(c)     == {k \in 1..Len(c) : c[k][1] = "Warn" /\ c[k][2] = "variable"}
Reported(c, i) == \E k \in Reports(c) : c[k][3] = i

\* C12: on every jit_shutdown, each scatter Variable with ref_count_ext == 1
\* and ref_count_int == 0 loses that reference before the leak reports: it is
\* not reported as a leak and is not in state.variables afterwards
C12_ScattersDecremented ==
    [][\A t \in Threads : ShutdownStep(t) =>
          \A i \in LeakedScatters(variables) :
              i \notin DOMAIN variables' /\ ~Reported(calls'[t], i)]_vars

\* ------------------------------------------------------------------- C13
\* jit_shutdown() of thread t has run to its return or to jit_fail()
ShutdownDone(t) == op[t] = "shutdown" /\ pc[t] \in {"ret", "aborted"}

\* The summaries in the log c, and all its messages about leaked Variables
Summaries(c) ==
    {k \in 1..Len(c) : c[k][1] = "Warn" /\ c[k][2] = "variables are still referenced"}
LeakMessages(c) ==
    {k \in 1..Len(c) : c[k][1] = "Warn" /\
        c[k][2] \in {"detected variable leaks", "variable", "skipping remainder",
                     "variables are still referenced"}}

\* min(n, 10) individual reports of distinct Variables, one summary stating n
\* when n > 0, no leak message when n = 0
LeaksReported(c, n) ==
    /\ Cardinality(Reports(c)) = (IF n < 10 THEN n ELSE 10)
    /\ \A j, k \in Reports(c) : c[j][3] = c[k][3] => j = k
    /\ n > 0 => Cardinality(Summaries(c)) = 1 /\ \A k \in Summaries(c) : c[k][3] = n
    /\ n = 0 => LeakMessages(c) = {}

\* C13 as stated: with n Variables live after the scatter pass, jit_shutdown
\* emits min(n, 10) individual leak reports and, when n > 0, one summary
\* stating n; no leak message when n = 0
C13_LeakReports ==
    \A t \in Threads : ShutdownDone(t) =>
        LeaksReported(calls[t], Cardinality(DOMAIN variables))

\* C13, amended: that holds when a log level is at least Warn; when both are
\* below Warn jit_shutdown emits no leak report and no summary, whatever n is
C13_LeakReportsWhenLogged ==
    \A t \in Threads : ShutdownDone(t) =>
        IF LeakPassRuns
        THEN LeaksReported(calls[t], Cardinality(DOMAIN variables))
        ELSE LeakMessages(calls[t]) = {}

\* More than ten Variables leaked and the individual reports stopped at ten
C13_Witness ==
    \E t \in Threads :
        /\ ShutdownDone(t) /\ LeakPassRuns
        /\ Cardinality(DOMAIN variables) > 10
        /\ Cardinality(Reports(calls[t])) = 10
        /\ \E k \in 1..Len(calls[t]) : calls[t][k] = <<"Warn", "skipping remainder">>

\* ------------------------------------------------------------------- C14
\* The calls in the log c that release the registry, the allocator, a device
ReleaseCalls(c) ==
    {k \in 1..Len(c) : c[k][1] \in {"jit_registry_shutdown", "jit_malloc_shutdown",
                                    "cuDevicePrimaryCtxRelease"}}

\* C14: jit_shutdown called with state.variables empty and the CSE cache or the
\* pointer-literal map non-empty fails fatally, whatever the log levels, and
\* has released neither the registry nor the allocator nor the devices
C14_CacheLeakFatal ==
    [][\A t \in Threads :
          (/\ ShutdownStep(t)
           /\ DOMAIN variables = {}
           /\ cse_cache # {} \/ variable_from_ptr # {})
          => /\ pc'[t] = "aborted"
             /\ ReleaseCalls(calls'[t]) = {}
             /\ devices' = devices /\ has_cuda' = has_cuda /\ has_llvm' = has_llvm]_vars

\* The failure with both log levels below Warn and a device still held
C14_Witness ==
    \E t \in Threads :
        /\ pc[t] = "aborted" /\ op[t] = "shutdown"
        /\ ~LeakPassRuns
        /\ DOMAIN variables = {} /\ cse_cache # {}
        /\ has_cuda /\ devices # <<>>

\* ------------------------------------------------------------------- C15
\* C15: a detected leak is fatal: when a Variable is still live as jit_shutdown
\* runs its leak pass, the process is terminated and jit_shutdown does not return
C15_LeakIsFatal ==
    \A t \in Threads : ShutdownReturned(t) /\ LeakPassRuns => DOMAIN variables = {}

\* ------------------------------------------------------------------- C16
\* Thread t creates a Variable in this step; the id issued is arg'[t]
VarNewStep(t) == pc[t] = "api" /\ op[t] = "none" /\ op'[t] = "var_new"

\* C16: state.variable_index never decreases over jit_init, creations of
\* Variables and jit_shutdown, and no id that names a live Variable of
\* state.variables is issued again
C16_IdsMonotone ==
    [][/\ variable_index' >= variable_index
       /\ \A t \in Threads : VarNewStep(t) => arg'[t] \notin DOMAIN variables]_vars

\* ------------------------------------------------------------------- C17
\* jit_init() of thread t has enumerated the devices; pre[t] holds what the
\* driver answered
InitAsked(t) == pc[t] = "ret" /\ op[t] = "init" /\ "n" \in DOMAIN pre[t]

\* The calls of the log c with the given name and argument
CallsOf(c, name, x) == {k \in 1..Len(c) : c[k][1] = name /\ c[k][2] = x}

\* The calls that create a sub-stream or sub-event of device i
SubCreates(c, name, i) == {k \in 1..Len(c) : c[k][1] = name /\ c[k][2][1] = i}

\* C17: after jit_init every Device of state.devices supports unified
\* addressing and managed memory and has exactly ENOKI_SUB_STREAMS sub-streams
\* and sub-events and one retained primary context; an enumerated device that
\* lacks either attribute is skipped: no context retained, no sub-stream created
C17_DevicesSuitable ==
    \A t \in Threads : InitAsked(t) =>
        /\ \A k \in DOMAIN devices :
              /\ devices[k].id \in pre[t].unified /\ devices[k].id \in pre[t].managed
              /\ Len(devices[k].sub_streams) = ENOKI_SUB_STREAMS
              /\ Len(devices[k].sub_events) = ENOKI_SUB_STREAMS
              /\ \A i, j \in 1..ENOKI_SUB_STREAMS :
                    devices[k].sub_streams[i] = devices[k].sub_streams[j] => i = j
              /\ Cardinality(CallsOf(calls[t], "cuDevicePrimaryCtxRetain", devices[k].id)) = 1
              /\ Cardinality(SubCreates(calls[t], "cuStreamCreate", devices[k].id))
                    = ENOKI_SUB_STREAMS
              /\ Cardinality(SubCreates(calls[t], "cuEventCreate", devices[k].id))
                    = ENOKI_SUB_STREAMS
        /\ \A i \in 0..(pre[t].n - 1) :
              (i \notin pre[t].unified \/ i \notin pre[t].managed) =>
                  /\ \A k \in DOMAIN devices : devices[k].id # i
                  /\ CallsOf(calls[t], "cuDevicePrimaryCtxRetain", i) = {}
                  /\ SubCreates(calls[t], "cuStreamCreate", i) = {}
                  /\ SubCreates(calls[t], "cuEventCreate", i) = {}

\* Two devices were accepted, one with unified addressing but without managed
\* memory was skipped
C17_Witness ==
    \E t \in Threads :
        /\ InitAsked(t) /\ Len(devices) = 2
        /\ \E i \in 0..(pre[t].n - 1) : i \in pre[t].unified /\ i \notin pre[t].managed

\* ------------------------------------------------------------------- C18
\* The queries and the enabling calls for the pair (a, b) in the log c
QueriesOf(c, a, b) ==
    {k \in 1..Len(c) : c[k][1] = "cuDeviceCanAccessPeer" /\ c[k][2] = a /\ c[k][3] = b}
EnablesOf(c, a, b) ==
    {k \in 1..Len(c) : c[k][1] = "cuCtxEnablePeerAccess" /\ c[k][2] = a /\ c[k][3] = b}

\* The ids of the accepted devices
DeviceIds == {devices[k].id : k \in DOMAIN devices}

\* The driver failed to enable peer access for some pair
EnableFailed(c) ==
    \E k \in 1..Len(c) : c[k][1] = "cuCtxEnablePeerAccess" /\ c[k][4] = "error"

LibReturned == "tried" \in DOMAIN lib /\ lib.done

\* C19: with the environment variable set to a non-empty value only that path
\* is tried, and a failure to load it gives a null handle without the canonical
\* name or the glob candidates being tried; with the variable unset or empty
\* the canonical name is tried first and a glob candidate only if that fails;
\* the function returns in every case, with a null handle when nothing loaded
C19_OverrideHonored ==
    LibReturned =>
        /\ IF lib.env # <<>> /\ lib.env[1] # <<>>
           THEN /\ lib.tried = <<lib.env[1]>>
                /\ lib.env[1] \notin lib.loadable => lib.ret = <<>>
           ELSE /\ lib.tried[1] = lib.fname
                /\ Len(lib.tried) > 1 =>
                      /\ lib.fname \notin lib.loadable
                      /\ lib.tried[2] \in Range(lib.glob.pathv)
        /\ lib.ret = <<>> \/ (lib.ret[1] \in lib.loadable /\ lib.ret[1] = lib.tried[Len(lib.tried)])
        /\ lib.ret = <<>> <=> lib.tried[Len(lib.tried)] \notin lib.loadable

\* The override could not be loaded and the call returned null, although the
\* canonical name and a glob candidate could have been loaded
C19_Witness ==
    /\ LibReturned
    /\ lib.env = Ptr(EnvPath) /\ EnvPath \notin lib.loadable
    /\ lib.fname \in lib.loadable
    /\ lib.glob.rc = 0 /\ \E x \in Range(lib.glob.pathv) : x \in lib.loadable
    /\ lib.ret = <<>>

\* ------------------------------------------------------------------- C20
\* The comparator has answered on the three paths
Compared == "less" \in DOMAIN lib /\ lib.done

\* A digit run without its leading zeros
RECURSIVE Strip(_)
Strip(r) == IF r # <<>> /\ r[1] = "0" THEN Strip(Tail(r)) ELSE r

\* Digit runs of equal length, compared digit by digit
RECURSIVE DigitsLess(_, _)
DigitsLess(r, u) ==
    IF r = <<>> THEN FALSE
    ELSE IF r[1] # u[1] THEN DigitOf(r[1]) < DigitOf(u[1])
    ELSE DigitsLess(Tail(r), Tail(u))

\* The numeric value of the run r is less than that of the run u
NumLess(r, u) ==
    IF Len(Strip(r)) # Len(Strip(u)) THEN Len(Strip(r)) < Len(Strip(u))
    ELSE DigitsLess(Strip(r), Strip(u))

\* The index after the digit run of a that starts at i
RECURSIVE RunEnd(_, _)
RunEnd(a, i) == IF IsDigit(Ch(a, i)) THEN RunEnd(a, i + 1) ELSE i

\* Natural version order: digit runs by numeric value, the rest lexicographically
RECURSIVE Natural(_, _, _, _)
Natural(a, i, b, j) ==
    IF Ch(a, i) = Ch(b, j) /\ Ch(a, i) # NUL /\ ~IsDigit(Ch(a, i))
    THEN Natural(a, i + 1, b, j + 1)
    ELSE IF IsDigit(Ch(a, i)) /\ IsDigit(Ch(b, j))
    THEN LET r == SubSeq(a, i, RunEnd(a, i) - 1)
             u == SubSeq(b, j, RunEnd(b, j) - 1)
         IN  IF NumLess(r, u) THEN TRUE
             ELSE IF NumLess(u, r) THEN FALSE
             ELSE Natural(a, RunEnd(a, i), b, RunEnd(b, j))
    ELSE StrLess(a, i, b, j)

\* C20: the comparator is a strict weak ordering (irreflexive, asymmetric,
\* transitive, with transitive equivalence) and it is the natural version
\* order: digit runs compare by numeric value, non-digit runs lexicographically
C20_NaturalOrder ==
    Compared =>
        /\ ~lib.less.aa
        /\ lib.less.ab => ~lib.less.ba
        /\ lib.less.ab /\ lib.less.bc => lib.less.ac
        /\ (~lib.less.ab /\ ~lib.less.ba /\ ~lib.less.bc /\ ~lib.less.cb)
              => (~lib.less.ac /\ ~lib.less.ca)
        /\ lib.less.ab = Natural(lib.a, 1, lib.b, 1)

\* ------------------------------------------------------------------- C21
\* The call went on to the glob and the glob gave several candidates
SeveralCandidates ==
    LibReturned /\ Len(lib.tried) = 2 /\ Len(lib.glob.pathv) > 1

\* The candidates lstat reports as something other than a symbolic link
RegularCandidates ==
    {x \in Range(lib.glob.pathv) : x \notin lib.nostat /\ x \notin lib.links}

\* C21: with several glob candidates the chosen one is a greatest candidate of
\* the comparator's order among those that are not symbolic links when there
\* is one, and a greatest candidate overall otherwise; no symbolic link is
\* chosen while a regular-file candidate exists
C21_LinksSkipped ==
    SeveralCandidates =>
        LET chosen == lib.tried[2]
            among  == IF RegularCandidates # {} THEN RegularCandidates
                      ELSE Range(lib.glob.pathv)
        IN  /\ chosen \in among
            /\ \A x \in among : ~Less(chosen, x)
            /\ RegularCandidates # {} => chosen \notin lib.links

\* The greatest candidate is a symbolic link, two regular files exist and the
\* greater of the two was chosen
C21_Witness ==
    /\ SeveralCandidates
    /\ lib.glob.pathv = <<(<<"a", "-", "1", "0">>), <<"a", "-", "9">>, <<"a", "-", "0", "9">>>>
    /\ lib.links = {<<"a", "-", "1", "0">>} /\ lib.nostat = {}
    /\ lib.tried[2] = <<"a", "-", "0", "9">>

\* ------------------------------------------------------------------- C22
\* The capabilities without which the backend cannot work are missing: the
\* core API, or both pass-builder APIs, or both JIT engines
LacksRequired(caps) ==
    \/ "core" \notin caps
    \/ "pb_new" \notin caps /\ "pb_legacy" \notin caps
    \/ "orcv2" \notin caps /\ "mcjit" \notin caps

\* C22: when the loaded library lacks a required capability, jitc_llvm_init
\* returns false, the API table is shut down and the LLVM backend is not
\* reported as available
C22_MissingCapabilityShutsDown ==
    (jitc_llvm.found.found /\ LacksRequired(jitc_llvm.found.caps)) =>
        /\ ~jitc_llvm.init_success
        /\ ~has_llvm
        /\ ~jitc_llvm.api.loaded

\* ------------------------------------------------------------------- C23
\* Thread t's call of jit_init() runs in this step
InitStep(t) == pc[t] = "api" /\ op[t] = "none" /\ op'[t] = "init"

\* C23: a call of jit_init() made while a backend is active, or with both
\* arguments zero, changes nothing: no driver call is made, and state.devices,
\* state.variable_index, the kernel counters and the rest of the state keep
\* their values
C23_DiscoveryOnce ==
    [][\A t \in Threads :
          (InitStep(t) /\ (has_llvm \/ has_cuda \/ arg'[t] = InitArg(0, 0))) =>
              /\ calls'[t] = <<>>
              /\ UNCHANGED <<has_llvm, has_cuda, devices, tss, ts, live, stream_ctx,
                             event_ctx, thread_state_cuda, thread_state_llvm>>
              /\ UNCHANGED <<variables, cse_cache, variable_from_ptr, extra,
                             variable_index, kernel_cache, kernel_stats, jitc_llvm>>]_vars

\* jit_init(1, 1) has returned while devices were registered and kernels had
\* been counted
C23_Witness ==
    \E t \in Threads :
        /\ pc[t] = "ret" /\ op[t] = "init" /\ arg[t] = InitArg(1, 1)
        /\ has_cuda /\ Len(devices) = DevCount
        /\ kernel_stats.launches > 0 /\ kernel_cache # {}

\* ------------------------------------------------------------------- C24
\* The position of the last delete of a ThreadState in the log c, 0 for none
LastDelete(c) ==
    LET D == {k \in 1..Len(c) : c[k][1] = "delete"}
    IN  IF D = {} THEN 0 ELSE CHOOSE k \in D : \A m \in D : m <= k

\* The stage of jit_shutdown() that entry k of the log c belongs to
Stage(c, k) ==
    IF k <= LastDelete(c) THEN 1
    ELSE IF c[k][1] \in {"jit_free_flush", "cuStreamSynchronize", "task_wait_and_release"}
         THEN 1
    ELSE IF c[k][1] \in {"jit_kernel_free", "free"} THEN 2
    ELSE IF c[k][1] \in {"Warn", "jit_fail"} THEN 3
    ELSE IF c[k][1] \in {"jit_registry_shutdown", "jit_malloc_shutdown"} THEN 4
    ELSE IF c[k][1] \in {"cuEventDestroy", "cuStreamDestroy", "cuDevicePrimaryCtxRelease"}
         THEN 5
    ELSE 6

\* C24: jit_shutdown works in stages: ThreadStates are drained and destroyed,
\* then the kernel cache is freed, then the leak pass runs, then the registry
\* and the allocator are shut down, then the devices are released, and last,
\* only when light == 0, the backend libraries are shut down.  When a device's
\* primary context is released, the streams of the ThreadStates on it have
\* been destroyed and the kernels cached for it have been freed.
C24_ReverseOrder ==
    [][\A t \in Threads : ShutdownStep(t) =>
          LET c == calls'[t] IN
          /\ \A k, m \in 1..Len(c) : k < m => Stage(c, k) <= Stage(c, m)
          /\ \A a \in Range(tss) : \E k \in 1..LastDelete(c) :
                /\ DrainedAt(c, k, a)
                /\ ts[a].cuda => c[k + 3] = <<"cuStreamDestroy", ts[a].stream>>
          /\ \A v \in kernel_cache : \E k \in 1..Len(c) :
                Stage(c, k) = 2 /\ c[k] = <<"jit_kernel_free", v.device, v.id>>
          /\ pc'[t] = "ret" =>
                /\ \E k \in 1..Len(c) : c[k][1] = "jit_registry_shutdown"
                /\ \E k \in 1..Len(c) : c[k][1] = "jit_malloc_shutdown"
                /\ has_cuda => \A d \in 1..Len(devices) : \E k \in 1..Len(c) :
                      c[k] = <<"cuDevicePrimaryCtxRelease", devices[d].id>>
                /\ (\E k \in 1..Len(c) : c[k][1] = "jit_llvm_shutdown") <=> arg'[t] = 0
                /\ (\E k \in 1..Len(c) : c[k][1] = "jit_cuda_shutdown") <=> arg'[t] = 0
                /\ \A k \in 1..Len(c) : Stage(c, k) = 6 => k >= Len(c) - 1]_vars

\* A light shutdown has returned: it destroyed the stream of a ThreadState,
\* freed a kernel and released a device, and left the backend libraries alone
C24_Witness ==
    \E t \in Threads :
        /\ ShutdownReturned(t) /\ arg[t] = 1
        /\ \E k \in 1..Len(calls[t]) : calls[t][k][1] = "cuStreamSynchronize"
        /\ \E k \in 1..Len(calls[t]) : calls[t][k][1] = "jit_kernel_free"
        /\ \E k \in 1..Len(calls[t]) : calls[t][k][1] = "cuDevicePrimaryCtxRelease"
        /\ \A k \in 1..Len(calls[t]) : calls[t][k][1] # "jit_llvm_shutdown"

\* ------------------------------------------------------------------- C25
\* How often the call e is in the log c after position from
Times(c, from, e) == Cardinality({k \in (from + 1)..Len(c) : c[k] = e})

LocalPointers(t) == {thread_state_cuda[t], thread_state_llvm[t]} \ {NULL}

\* C26: every non-null thread-local ThreadState pointer of every thread refers
\* to a ThreadState that is registered in state.tss and has not been deleted
C26_NoDanglingPointer ==
    \A t \in Threads : \A p \in LocalPointers(t) : p \in Range(tss) /\ p \in live

\* ------------------------------------------------------------------- C27
\* Thread t is inside the loop of jit_sync_device() or jit_sync_all_devices()
\* over its snapshot, the mutex released
InSnapshotLoop(t) == op[t] \in {"sync_device", "sync_all"} /\ pc[t] \in {"loop", "wait"}

\* C27: the ThreadState that the loop over the snapshot is about to synchronize,
\* or is waiting for, has not been deleted, and the stream of a GPU ThreadState
\* being waited for has not been destroyed
C27_SnapshotAlive ==
    \A t \in Threads : InSnapshotLoop(t) =>
        /\ (pc[t] = "loop" /\ idx[t] <= Len(snap[t])) => snap[t][idx[t]] \in live
        /\ pc[t] = "wait" =>
              /\ cur[t].p \in live
              /\ cur[t].cuda => StreamLive(ts[cur[t].p].stream)

\* C28  Stream and event balance: while a GPU ThreadState is registered, its
\* stream and event are live objects of the driver created in the ThreadState's
\* current context, and every live stream and event belongs to exactly one
\* registered GPU ThreadState (so that it is destroyed once, by the call that
\* retires that ThreadState)
GpuRegistered == {a \in Range(tss) : a \in live /\ ts[a].cuda}
FieldsLive(a) ==
    /\ StreamLive(ts[a].stream)
    /\ EventLive(ts[a].event)
    /\ stream_ctx[ts[a].stream] = ts[a].context
    /\ event_ctx[ts[a].event] = ts[a].context
Balanced ==
    /\ \A s \in Handles : StreamLive(s) =>
           Cardinality({a \in GpuRegistered : ts[a].stream = s}) = 1
    /\ \A e \in Handles : EventLive(e) =>
           Cardinality({a \in GpuRegistered : ts[a].event = e}) = 1
C28_StreamEventBalance ==
    /\ \A a \in GpuRegistered : FieldsLive(a)
    /\ Balanced

\* ------------------------------------------------------------------- C29
\* Thread t's jit_init() asked for the LLVM backend, ran jitc_llvm_init() on a
\* library that was found, and got false
LlvmInitFailed(t) ==
    /\ pc[t] = "ret" /\ op[t] = "init" /\ arg[t] = InitArg(1, 0)
    /\ ~has_llvm
    /\ jitc_llvm.found.found

\* C29: whenever jitc_llvm_init returns false, nothing acquired during
\* the attempt is left alive: no ORCv2/MCJIT engine is initialized, the target
\* triple/CPU/feature strings and the disassembler context are released, and
\* jitc_llvm_vector_width is 0
C29_FailedInitLeavesNothing ==
    \A t \in Threads : LlvmInitFailed(t) =>
        /\ ~jitc_llvm.orcv2 /\ ~jitc_llvm.mcjit
        /\ jitc_llvm.messages = 0
        /\ jitc_llvm.target_cpu = Null /\ jitc_llvm.target_features = Null
        /\ jitc_llvm.disasm_ctx = Null
        /\ jitc_llvm.vector_width = 0

\* ------------------------------------------------------------------- C30
\* The number of lanes of a vector constant "<lane, lane, ...>"
LaneCount(str) ==
    IF Len(str) <= 2 THEN 0
    ELSE 1 + Cardinality({i \in DOMAIN str : str[i] = ", "})

\* C30: whenever the LLVM backend is initialized, jitc_llvm_max_align equals
\* 4 * jitc_llvm_vector_width and every string of jitc_llvm_ones_str has
\* exactly jitc_llvm_vector_width lanes (after jitc_llvm_init and after every
\* jitc_llvm_set_target)
C30_AlignAndLanes ==
    jitc_llvm.init_success =>
        /\ jitc_llvm.max_align = 4 * jitc_llvm.vector_width
        /\ jitc_llvm.ones_str # Null
        /\ \A i \in 1..Len(VarTypes) :
               LaneCount(jitc_llvm.ones_str[1][i]) = jitc_llvm.vector_width

\* ------------------------------------------------------------------- C31
\* Thread t's jitc_llvm_compile() has returned
Compiled(t) == pc[t] = "ret" /\ op[t] = "llvm_compile"

\* The number of calls named f that thread t's operation made
CallCount(t, f) == Cardinality({k \in DOMAIN calls[t] : calls[t][k][1] = f})

\* C31: with a dynamically resolved LLVM, every jitc_llvm_compile run after a
\* successful jitc_llvm_init executes exactly one pass pipeline, the new pass
\* manager if the new pass-builder API resolved and the legacy pass manager
\* otherwise, and the module is then compiled by the engine chosen at init:
\* ORCv2 if it was available and initialized, MCJIT otherwise
C31_OnePipelineOneEngine ==
    \A t \in Threads : Compiled(t) =>
        LET new    == CallCount(t, "LLVMRunPasses")
            legacy == CallCount(t, "LLVMRunPassManager")
            orcv2  == CallCount(t, "jitc_llvm_orcv2_compile")
            mcjit  == CallCount(t, "jitc_llvm_mcjit_compile")
        IN  /\ new + legacy = 1
            /\ new = 1 <=> "pb_new" \in jitc_llvm.found.caps
            /\ orcv2 + mcjit = 1
            /\ orcv2 = 1 <=> ("orcv2" \in jitc_llvm.found.caps
                              /\ "orcv2" \in jitc_llvm.found.engines)
            /\ orcv2 = 1 => jitc_llvm.orcv2
            /\ mcjit = 1 => jitc_llvm.mcjit
            /\ \A k \in DOMAIN calls[t] :
                   calls[t][k][1] \in {"jitc_llvm_orcv2_compile", "jitc_llvm_mcjit_compile"}
                   => \E j \in 1..(k - 1) :
                          calls[t][j][1] \in {"LLVMRunPasses", "LLVMRunPassManager"}

\* A compilation has returned with both pass-builder APIs resolved and ORCv2
\* resolved but not initialized
C31_Witness ==
    \E t \in Threads :
        /\ Compiled(t)
        /\ {"pb_new", "pb_legacy", "orcv2", "mcjit"} \subseteq jitc_llvm.found.caps
        /\ "orcv2" \notin jitc_llvm.found.engines
        /\ CallCount(t, "jitc_llvm_mcjit_compile") = 1

\* ------------------------------------------------------------------- C32
\* Thread t's jitc_llvm_compile() has run, to its end or to a jitc_fail
CompileRan(t) == op[t] = "llvm_compile" /\ pc[t] \in {"ret", "aborted"}

\* The calls of thread t's operation that set a protection, and the ones that
\* write to the kernel's memory
Protects(t) == {k \in DOMAIN calls[t] : calls[t][k][1] \in {"mmap", "mprotect"}}
Writes(t)   == {k \in DOMAIN calls[t] : calls[t][k][1] \in {"memcpy", "store"}}

\* What the engine reported to thread t's compilation
EngineOf(t) ==
    LET k == CHOOSE k \in DOMAIN calls[t] :
                 calls[t][k][1] \in {"jitc_llvm_orcv2_compile", "jitc_llvm_mcjit_compile"}
    IN  calls[t][k][2]

\* C32: in jitc_llvm_compile the kernel's memory is never writable and
\* executable at once and all writes precede the protection change: the code
\* is copied and the @callables address is written (only when n_reloc > 1)
\* while the region is read/write, then the region becomes read/execute.  The
\* relocation table has callable_count_unique + 2 entries when there are
\* callables and 1 entry otherwise, and each entry keeps its offset: reloc[i] -
\* kernel.data is the entry's offset in the memory manager's buffer
C32_WriteThenExecute ==
    \A t \in Threads : CompileRan(t) =>
        /\ \A k \in Protects(t) : ~({"w", "x"} \subseteq calls[t][k][3])
        /\ \A k \in Writes(t) :
              /\ \E j \in Protects(t) : j < k /\ calls[t][j][1] = "mmap"
                                        /\ "w" \in calls[t][j][3]
              /\ \A j \in Protects(t) : calls[t][j][1] = "mprotect" => k < j
        /\ Compiled(t) =>
              LET c == calls[t]
                  K == kernel[t]
                  eng == EngineOf(t)
              IN  /\ c[Len(c)] = <<"mprotect", K.data, {"r", "x"}>>
                  /\ CallCount(t, "mprotect") = 1
                  /\ CallCount(t, "memcpy") = 1
                  /\ CallCount(t, "store") = (IF K.n_reloc > 1 THEN 1 ELSE 0)
                  /\ \A k \in DOMAIN c : c[k][1] = "store" =>
                         /\ c[k][2] = K.reloc[2]
                         /\ c[k][2] - K.data \in 0..(K.size - 1)
                  /\ K.n_reloc = (IF arg[t] # 0 THEN arg[t] + 2 ELSE 1)
                  /\ Len(K.reloc) = K.n_reloc
                  /\ \A i \in 1..K.n_reloc : K.reloc[i] - K.data = eng.offs[i]

\* A compilation with callables has returned: the table has three entries
\* with different offsets, in memory mapped below the memory manager's buffer
C32_Witness ==
    \E t \in Threads :
        /\ Compiled(t) /\ arg[t] = 1
        /\ kernel[t].n_reloc = 3
        /\ kernel[t].data < EngineOf(t).data
        /\ kernel[t].reloc[1] # kernel[t].reloc[2]
        /\ CallCount(t, "store") = 1

====
